---------------------------- MODULE Spec2Model ----------------------------
(***************************************************************************)
(* A model of the kdv drone-footage pipeline:                              *)
(*   - the timeline walker of src/kdv/extract.py                           *)
(*     (parse_kdenlive_project), run one loop iteration per step over a    *)
(*     project document chosen in the initial state;                       *)
(*   - the catalog file of src/kdv/metadata.py and the operations that     *)
(*     read and write it (extract_metadata, annotate_clip, the edit        *)
(*     command of browse_catalog, show_catalog_summary).                   *)
(*                                                                         *)
(* Text that the code inspects character by character (attribute values    *)
(* handed to int(), resource paths tested with startswith) is a sequence   *)
(* of one-character strings; identifiers that are only compared for        *)
(* equality are strings.                                                   *)
(***************************************************************************)
EXTENDS Integers, Sequences, FiniteSets, TLC

VARIABLES
    doc,        \* the parsed project document (ET.parse's tree), read only
    pc,         \* where parse_kdenlive_project stands
    producers,  \* the dict producers: producer id -> resource path
    clips,      \* the list clips, in append order
    origin,     \* history: for each clip, the loop indices it was emitted at
    walked,     \* history: the loop indices of every entry the loop body finished
    ti,         \* tractors taken from root.iter("tractor") so far
    ki,         \* tracks taken from tractor.findall("track") so far
    li,         \* playlists taken from root.iter("playlist") so far
    ei,         \* entries taken from playlist.findall("entry") so far
    position,   \* the local variable position
    raised,     \* the exception that ended the parse, "" when none
    catalog,    \* catalog.json: whether it exists, and the list it holds
    last,       \* history: the last catalog operation (the file before it, its
                \* arguments, what it returned) and how many there were
    profile,    \* the first profile element of a project and its two attributes
    frames,     \* a frame count handed to frames_to_timecode
    fps,        \* the local variable fps of parse_kdenlive_project, a quotient
    timecode,   \* what frames_to_timecode returned, or the exception it raised
    tpc,        \* where the computation of a timecode stands
    listed,     \* browse_catalog's local list catalog, sorted
    page,       \* browse_catalog's local variable page
    total_pages,\* browse_catalog's local variable total_pages
    page_clips, \* the slice browse_catalog displays
    cmd,        \* the answer to the prompt Action, "" before the first
    commands,   \* history: how many commands were answered
    bpc,        \* where browse_catalog stands
    job,        \* for each of two concurrent invocations, what it was asked
    rpc,        \* for each of them, where it stands
    memory,     \* for each of them, the catalog list and the clip it holds
    stored,     \* history: the catalog file before either of them started
    events,     \* history: their loads and saves in the order they happened,
                \* each with the file it left
    project,    \* the project file handed to extract_clips
    call,       \* the arguments of extract_clips
    xpc,        \* where extract_clips stands
    xi,         \* clips the loop of extract_clips has taken
    xresults,   \* the dict results of extract_clips, or the dict it returned
    dirs,       \* the directories extract_clips created
    outputs,    \* the files in the output directories
    trace,      \* history: for each clip taken, how the loop body left it
    xraised,    \* the exception that ended extract_clips, "" when none
    fs,         \* the files link_proxies_to_project sees, by path
    link,       \* the arguments of link_proxies_to_project
    ptree,      \* its local variable tree
    updated,    \* its local variable updated
    ppc,        \* where it stands
    praised,    \* the exception that ended it, "" when none
    card,       \* the source directory of ingest_footage: its files by name
    raw,        \* the destination directory: its files by name
    ingest,     \* the arguments move and verify of ingest_footage
    gfiles,     \* its local variable files
    gi,         \* the index in files of src_file
    next_seq,   \* its local variable next_seq
    dest_name,  \* its local variable dest_name
    src_checksum, \* its local variable src_checksum
    gresults,   \* its local variable results
    gpc,        \* where it stands
    footage     \* the files the source directory held at the call

walkerVars == <<doc, pc, producers, clips, origin, walked, ti, ki, li, ei, position, raised>>
catalogVars == <<catalog, last>>
timecodeVars == <<profile, frames, fps, timecode, tpc>>
\* the variables of the tools other than the walker and the catalog
browseVars == <<listed, page, total_pages, page_clips, cmd, commands, bpc>>
raceVars == <<job, rpc, memory, stored, events>>
extractVars == <<project, call, xpc, xi, xresults, dirs, outputs, trace, xraised>>
proxyVars == <<fs, link, ptree, updated, ppc, praised>>
ingestVars ==
    <<card, raw, ingest, gfiles, gi, next_seq, dest_name, src_checksum, gresults, gpc,
      footage>>
toolVars == <<timecodeVars, browseVars, raceVars, extractVars, proxyVars, ingestVars>>
\* for each tool, the variables of the other tools
exceptTimecode == <<browseVars, raceVars, extractVars, proxyVars, ingestVars>>
exceptBrowse == <<timecodeVars, raceVars, extractVars, proxyVars, ingestVars>>
exceptRace == <<timecodeVars, browseVars, extractVars, proxyVars, ingestVars>>
exceptExtract == <<browseVars, raceVars, proxyVars, ingestVars>>
exceptProxy == <<timecodeVars, browseVars, raceVars, extractVars, ingestVars>>
exceptIngest == <<timecodeVars, browseVars, raceVars, extractVars, proxyVars>>
vars == <<walkerVars, catalogVars, toolVars>>

-----------------------------------------------------------------------------
(* Bounds of the checked documents and catalogs.                           *)

\* entry elements in a document of EntryDocs, over all its playlists
MaxEntries == 3
\* tractor elements in a document of TrackDocs
MaxTractors == 2
\* track elements in a document of TrackDocs, over all its tractors
MaxTracks == 3
\* producer elements in a document of ProducerDocs
MaxProducers == 2

-----------------------------------------------------------------------------
(* Text and attributes.                                                    *)

\* An attribute (or an element's text) that is not there: Python's None.
NoText == [present |-> FALSE, text |-> <<>>]

Text(chars) == [present |-> TRUE, text |-> chars]

Digits == <<"0", "1", "2", "3", "4", "5", "6", "7", "8", "9">>

IsDigit(c) == \E d \in 1..10 : Digits[d] = c

DigitValue(c) == (CHOOSE d \in 1..10 : Digits[d] = c) - 1

IsSpace(c) == c \in {" ", "\t", "\n"}

RECURSIVE StripLeft(_)
StripLeft(s) ==
    IF s # <<>> /\ IsSpace(Head(s)) THEN StripLeft(Tail(s)) ELSE s

RECURSIVE StripRight(_)
StripRight(s) ==
    IF s # <<>> /\ IsSpace(s[Len(s)])
    THEN StripRight(SubSeq(s, 1, Len(s) - 1))
    ELSE s

RECURSIVE DecimalValue(_)
DecimalValue(s) ==
    IF s = <<>> THEN 0
    ELSE 10 * DecimalValue(SubSeq(s, 1, Len(s) - 1)) + DigitValue(s[Len(s)])

\* Python's int(str): surrounding whitespace is dropped, one sign is allowed,
\* then one or more decimal digits; anything else raises ValueError.
PyInt(chars) ==
    LET s == StripRight(StripLeft(chars))
        signed == s # <<>> /\ Head(s) \in {"-", "+"}
        body == IF signed THEN Tail(s) ELSE s
        ok == body # <<>> /\ \A i \in 1..Len(body) : IsDigit(body[i])
    IN  IF ~ok THEN [ok |-> FALSE, val |-> 0]
        ELSE [ok |-> TRUE,
              val |-> IF signed /\ Head(s) = "-"
                      THEN 0 - DecimalValue(body)
                      ELSE DecimalValue(body)]

\* str.startswith
StartsWith(s, prefix) ==
    Len(s) >= Len(prefix) /\ SubSeq(s, 1, Len(prefix)) = prefix

Black == <<"b", "l", "a", "c", "k">>

-----------------------------------------------------------------------------
(* pathlib.Path(text) on a POSIX host: the text is split at "/", empty and  *)
(* "." components are dropped, and the root is "/" ("//" for exactly two    *)
(* leading slashes); a path with nothing left is ".".                       *)

RECURSIVE LeadingSlashes(_)
LeadingSlashes(s) ==
    IF s # <<>> /\ Head(s) = "/" THEN 1 + LeadingSlashes(Tail(s)) ELSE 0

\* the components of s, as a sequence of character sequences
RECURSIVE SplitSlash(_, _)
SplitSlash(s, cur) ==
    IF s = <<>> THEN <<cur>>
    ELSE IF Head(s) = "/" THEN <<cur>> \o SplitSlash(Tail(s), <<>>)
    ELSE SplitSlash(Tail(s), Append(cur, Head(s)))

RECURSIVE KeptParts(_)
KeptParts(parts) ==
    IF parts = <<>> THEN <<>>
    ELSE IF Head(parts) \in {<<>>, <<".">>} THEN KeptParts(Tail(parts))
    ELSE <<Head(parts)>> \o KeptParts(Tail(parts))

RECURSIVE JoinSlash(_)
JoinSlash(parts) ==
    IF parts = <<>> THEN <<>>
    ELSE IF Len(parts) = 1 THEN Head(parts)
    ELSE Head(parts) \o <<"/">> \o JoinSlash(Tail(parts))

PathOf(chars) ==
    LET n == LeadingSlashes(chars)
        root == IF n = 0 THEN <<>> ELSE IF n = 2 THEN <<"/", "/">> ELSE <<"/">>
        joined == root \o JoinSlash(KeptParts(SplitSlash(chars, <<>>)))
    IN  IF joined = <<>> THEN <<".">> ELSE joined

-----------------------------------------------------------------------------
(* The producer map (extract.py, lines 80-88).                             *)

\* a variant that lets a later resource property override an earlier one
RECURSIVE LastResource(_, _)
LastResource(props, i) ==
    IF i > Len(props) THEN 0
    ELSE LET later == LastResource(props, i + 1)
         IN  IF later # 0 THEN later
             ELSE IF props[i].name = "resource" THEN i ELSE 0

\* index of the first property named "resource", 0 when there is none
RECURSIVE FirstResource(_, _)
FirstResource(props, i) ==
    IF i > Len(props) THEN 0
    ELSE IF props[i].name = "resource" THEN i
    ELSE FirstResource(props, i + 1)

\* a variant that forgets the placeholder test
ResourceResolvesAnyText(t) == t.present /\ t.text # <<>>

\* `if resource_path and not resource_path.startswith("black")`
ResourceResolves(t) ==
    t.present /\ t.text # <<>> /\ ~StartsWith(t.text, Black)

\* one iteration of `for producer in root.iter("producer")`
RecordProducer(map, producer) ==
    LET r == FirstResource(producer.props, 1)
    IN  IF r # 0 /\ ResourceResolves(producer.props[r].text)
        THEN [x \in DOMAIN map \cup {producer.id} |->
                 IF x = producer.id THEN PathOf(producer.props[r].text.text)
                 ELSE map[x]]
        ELSE map

RECURSIVE ProducerMap(_, _)
ProducerMap(prods, map) ==
    IF prods = <<>> THEN map
    ELSE ProducerMap(Tail(prods), RecordProducer(map, Head(prods)))

-----------------------------------------------------------------------------
(* The walk over tractors, tracks, playlists and entries                   *)
(* (extract.py, lines 91-121).                                             *)

\* the tractors the outer loop visits: root.iter("tractor"), document order
TractorsWalked(d) == d.tractors

\* entry.get(name, "0") followed by int()
EntryFrame(attr) == PyInt(IF attr.present THEN attr.text ELSE <<"0">>)

\* a variant that counts the range exclusively
EntryDurationExclusive(in_frame, out_frame) == out_frame - in_frame

\* a variant that clamps an inverted range to no frames
EntryDurationClamped(in_frame, out_frame) ==
    IF out_frame - in_frame + 1 < 0 THEN 0 ELSE out_frame - in_frame + 1

\* duration=out_frame - in_frame + 1
EntryDuration(in_frame, out_frame) == out_frame - in_frame + 1

\* `if prod_ref in producers`
Resolves(map, prod_ref) == prod_ref \in DOMAIN map

\* a variant that keeps the counter of the playlist walked before
StartPositionCarried(carried) == carried

\* `position = 0` on entering a playlist that matches the track
StartPosition(carried) == 0

\* a variant that assigns where the code adds
AdvancePositionAssigned(pos, in_frame, out_frame, resolved) ==
    out_frame - in_frame + 1

\* `position += out_frame - in_frame + 1`, after the lookup whatever it found
AdvancePosition(pos, in_frame, out_frame, resolved) ==
    pos + (out_frame - in_frame + 1)

\* a variant that keeps the list ordered by position
RECURSIVE InsertByPosition(_, _)
InsertByPosition(list, clip) ==
    IF list = << >> THEN <<clip>>
    ELSE IF list[Len(list)].position <= clip.position THEN Append(list, clip)
    ELSE Append(InsertByPosition(SubSeq(list, 1, Len(list) - 1), clip), list[Len(list)])

\* `clips.append(clip)`
AppendClip(list, clip) == Append(list, clip)

\* `if playlist.get("id") == track_producer`
PlaylistMatches(playlist, track_producer) == playlist.id = track_producer

CurTractor == TractorsWalked(doc)[ti]
CurTrack == CurTractor.tracks[ki]
CurPlaylist == doc.playlists[li]

BuildProducers ==
    /\ pc = "producers"
    /\ producers' = ProducerMap(doc.producers, << >>)
    /\ pc' = "tractor"
    /\ UNCHANGED <<doc, clips, origin, walked, ti, ki, li, ei, position, raised>>
    /\ UNCHANGED <<catalogVars, toolVars>>

\* `for tractor in root.iter("tractor")`
TractorLoop ==
    /\ pc = "tractor"
    /\ IF ti < Len(TractorsWalked(doc))
       THEN ti' = ti + 1 /\ ki' = 0 /\ pc' = "track"
       ELSE pc' = "done" /\ UNCHANGED <<ti, ki>>
    /\ UNCHANGED <<doc, producers, clips, origin, walked, li, ei, position, raised>>
    /\ UNCHANGED <<catalogVars, toolVars>>

\* `for track in tractor.findall("track")`
TrackLoop ==
    /\ pc = "track"
    /\ IF ki < Len(CurTractor.tracks)
       THEN ki' = ki + 1 /\ li' = 0 /\ pc' = "playlist"
       ELSE pc' = "tractor" /\ UNCHANGED <<ki, li>>
    /\ UNCHANGED <<doc, producers, clips, origin, walked, ti, ei, position, raised>>
    /\ UNCHANGED <<catalogVars, toolVars>>

\* a variant that looks the playlist up by id and fails when there is none
PlaylistLoopStrict ==
    /\ pc = "playlist"
    /\ IF li < Len(doc.playlists)
       THEN /\ li' = li + 1
            /\ IF PlaylistMatches(doc.playlists[li + 1], CurTrack.producer)
               THEN position' = StartPosition(position) /\ ei' = 0 /\ pc' = "entry"
               ELSE UNCHANGED <<position, ei, pc>>
            /\ UNCHANGED raised
       ELSE IF \E l \in DOMAIN doc.playlists :
                   PlaylistMatches(doc.playlists[l], CurTrack.producer)
            THEN pc' = "track" /\ UNCHANGED <<li, position, ei, raised>>
            ELSE /\ raised' = "KeyError"
                 /\ pc' = "raised"
                 /\ UNCHANGED <<li, position, ei>>
    /\ UNCHANGED <<doc, producers, clips, origin, walked, ti, ki>>
    /\ UNCHANGED <<catalogVars, toolVars>>

\* `for playlist in root.iter("playlist")`
PlaylistLoop ==
    /\ pc = "playlist"
    /\ IF li < Len(doc.playlists)
       THEN /\ li' = li + 1
            /\ IF PlaylistMatches(doc.playlists[li + 1], CurTrack.producer)
               THEN position' = StartPosition(position) /\ ei' = 0 /\ pc' = "entry"
               ELSE UNCHANGED <<position, ei, pc>>
       ELSE pc' = "track" /\ UNCHANGED <<li, position, ei>>
    /\ UNCHANGED <<doc, producers, clips, origin, walked, ti, ki, raised>>
    /\ UNCHANGED <<catalogVars, toolVars>>

\* `for entry in playlist.findall("entry")` and the loop body
EntryLoop ==
    /\ pc = "entry"
    /\ IF ei < Len(CurPlaylist.entries)
       THEN LET entry == CurPlaylist.entries[ei + 1]
                in_frame == EntryFrame(entry.in)
                out_frame == EntryFrame(entry.out)
                resolved == Resolves(producers, entry.producer)
            IN  IF ~in_frame.ok \/ ~out_frame.ok
                THEN /\ raised' = "ValueError"
                     /\ pc' = "raised"
                     /\ UNCHANGED <<ei, clips, origin, walked, position>>
                ELSE /\ ei' = ei + 1
                     /\ walked' = Append(walked,
                            [tractor |-> ti, track |-> ki,
                             playlist |-> li, entry |-> ei + 1])
                     /\ IF resolved
                        THEN /\ clips' = AppendClip(clips,
                                    [producer_id |-> entry.producer,
                                     source_path |-> producers[entry.producer],
                                     in_point |-> in_frame.val,
                                     out_point |-> out_frame.val,
                                     duration |-> EntryDuration(in_frame.val, out_frame.val),
                                     track |-> CurTrack.producer,
                                     position |-> position])
                             /\ origin' = Append(origin,
                                    [tractor |-> ti, track |-> ki,
                                     playlist |-> li, entry |-> ei + 1])
                        ELSE UNCHANGED <<clips, origin>>
                     /\ position' = AdvancePosition(position, in_frame.val,
                                                    out_frame.val, resolved)
                     /\ UNCHANGED <<pc, raised>>
       ELSE pc' = "playlist" /\ UNCHANGED <<ei, clips, origin, walked, position, raised>>
    /\ UNCHANGED <<doc, producers, ti, ki, li>>
    /\ UNCHANGED <<catalogVars, toolVars>>

-----------------------------------------------------------------------------
(* The same walk as a function of the document: what lines 91-121 leave in  *)
(* clips, and the exception they end with, for a given producer map.       *)

\* the loop over the entries of one playlist, from entry k at position pos
RECURSIVE WalkEntries(_, _, _, _, _)
WalkEntries(entries, k, pos, map, track_producer) ==
    IF k > Len(entries) THEN [clips |-> << >>, raised |-> ""]
    ELSE LET entry == entries[k]
             in_frame == EntryFrame(entry.in)
             out_frame == EntryFrame(entry.out)
             resolved == Resolves(map, entry.producer)
         IN  IF ~in_frame.ok \/ ~out_frame.ok
             THEN [clips |-> << >>, raised |-> "ValueError"]
             ELSE LET rest == WalkEntries(entries, k + 1,
                                  AdvancePosition(pos, in_frame.val, out_frame.val, resolved),
                                  map, track_producer)
                      emitted ==
                          IF resolved
                          THEN << [producer_id |-> entry.producer,
                                   source_path |-> map[entry.producer],
                                   in_point |-> in_frame.val,
                                   out_point |-> out_frame.val,
                                   duration |-> EntryDuration(in_frame.val, out_frame.val),
                                   track |-> track_producer,
                                   position |-> pos] >>
                          ELSE << >>
                  IN  [clips |-> emitted \o rest.clips, raised |-> rest.raised]

\* the (track, playlist) pairs whose entries are walked, in the order of the
\* three outer loops
RECURSIVE MatchesOfTrack(_, _, _)
MatchesOfTrack(d, track_producer, l) ==
    IF l > Len(d.playlists) THEN << >>
    ELSE (IF PlaylistMatches(d.playlists[l], track_producer)
          THEN << [track |-> track_producer, playlist |-> l] >>
          ELSE << >>) \o MatchesOfTrack(d, track_producer, l + 1)

RECURSIVE MatchesOfTractor(_, _, _)
MatchesOfTractor(d, tracks, k) ==
    IF k > Len(tracks) THEN << >>
    ELSE MatchesOfTrack(d, tracks[k].producer, 1) \o MatchesOfTractor(d, tracks, k + 1)

RECURSIVE MatchesOfDocument(_, _)
MatchesOfDocument(d, t) ==
    IF t > Len(TractorsWalked(d)) THEN << >>
    ELSE MatchesOfTractor(d, TractorsWalked(d)[t].tracks, 1) \o MatchesOfDocument(d, t + 1)

RECURSIVE RunWalks(_, _, _, _)
RunWalks(d, walks, n, map) ==
    IF n > Len(walks) THEN [clips |-> << >>, raised |-> ""]
    ELSE LET one == WalkEntries(d.playlists[walks[n].playlist].entries, 1,
                                StartPosition(0), map, walks[n].track)
         IN  IF one.raised # "" THEN one
             ELSE LET rest == RunWalks(d, walks, n + 1, map)
                  IN  [clips |-> one.clips \o rest.clips, raised |-> rest.raised]

WalkOfDocument(d) ==
    RunWalks(d, MatchesOfDocument(d, 1), 1, ProducerMap(d.producers, << >>))

-----------------------------------------------------------------------------
(* The documents checked.                                                  *)

PathA == <<"/", "a">>
PathB == <<"/", "b">>

Prop(name, t) == [name |-> name, text |-> t]
Producer(id, props) == [id |-> id, props |-> props]
Entry(ref, in_attr, out_attr) == [producer |-> ref, in |-> in_attr, out |-> out_attr]
Playlist(id, entries) == [id |-> id, entries |-> entries]
Track(ref) == [producer |-> ref]
Tractor(tracks) == [tracks |-> tracks]

\* sequences over S of length at most n
SeqsUpTo(S, n) == UNION {[1..k -> S] : k \in 0..n}

\* p1 is a file; p2 is a file, a black placeholder, or has no resource property
EntryDocProducers ==
    { << Producer("p1", <<Prop("resource", Text(PathA))>>),
         Producer("p2", <<Prop("length", Text(<<"9">>)),
                          Prop("resource", Text(PathB))>>) >>,
      << Producer("p1", <<Prop("resource", Text(PathA))>>),
         Producer("p2", <<Prop("resource", Text(Black))>>) >>,
      << Producer("p1", <<Prop("resource", Text(PathA))>>),
         Producer("p2", <<Prop("length", Text(<<"9">>))>>) >> }

\* in and out absent, in <= out, out < in - 1, and values int() rejects
EntryKinds ==
    { Entry("p1", NoText, NoText),
      Entry("p1", Text(<<"5">>), Text(<<"9">>)),
      Entry("p1", Text(<<"5">>), Text(<<"2">>)),
      Entry("p1", Text(<<"x">>), Text(<<"9">>)),
      Entry("p2", Text(<<"5">>), Text(<<"9">>)),
      Entry("p2", Text(<<"9">>), Text(<<"5">>)),
      Entry("p2", Text(<<"5">>), Text(<<>>)) }

\* Documents with one tractor of two tracks and two playlists holding at
\* most MaxEntries entries between them.
\* sequences of t sequences over S holding at most n elements between them
RECURSIVE Splits(_, _, _)
Splits(S, n, t) ==
    IF t = 0 THEN {<<>>}
    ELSE UNION { {<<s>> \o rest : rest \in Splits(S, n - Len(s), t - 1)} :
                 s \in SeqsUpTo(S, n) }

EntryDocs ==
    { [producers |-> ps,
       playlists |-> <<Playlist("playlist0", es[1]), Playlist("playlist1", es[2])>>,
       tractors |-> <<Tractor(<<Track("playlist0"), Track("playlist1")>>)>>] :
        ps \in EntryDocProducers,
        es \in Splits(EntryKinds, MaxEntries, 2) }

\* "playlist9" is the id of no playlist
TrackRefs == {"playlist0", "playlist1", "playlist9"}

TrackDocPlaylists ==
    { << Playlist("playlist0", <<Entry("p1", Text(<<"5">>), Text(<<"9">>)),
                                 Entry("p2", Text(<<"5">>), Text(<<"9">>)),
                                 Entry("p1", Text(<<"1", "0">>), Text(<<" ", "9">>))>>),
         Playlist("playlist1", <<Entry("p1", NoText, Text(<<"+", "3">>))>>) >>,
      << Playlist("playlist0", <<Entry("p1", Text(<<"5">>), Text(<<"4">>))>>),
         Playlist("playlist0", <<Entry("p1", Text(<<"-", "2">>), NoText)>>),
         Playlist("playlist1", <<>>) >>,
      << Playlist("playlist0", <<Entry("p1", Text(<<"5">>), Text(<<"9">>))>>),
         Playlist("playlist1", <<Entry("p1", Text(<<"5">>), Text(<<"9", "f">>)),
                                 Entry("p1", NoText, NoText)>>) >> }

\* Documents with at most MaxTractors tractors holding at most MaxTracks
\* track references between them; p2 is the id of no producer.
TrackDocs ==
    { [producers |-> <<Producer("p1", <<Prop("resource", Text(PathA))>>)>>,
       playlists |-> pls,
       tractors |-> [i \in DOMAIN refs |->
                        Tractor([j \in DOMAIN refs[i] |-> Track(refs[i][j])])]] :
        pls \in TrackDocPlaylists,
        refs \in UNION {Splits(TrackRefs, MaxTracks, t) : t \in 0..MaxTractors} }

BlackFile == <<"b", "l", "a", "c", "k", "_", "1">>
SpaceBlack == <<" ", "b", "l", "a", "c", "k">>

\* the property lists of a producer element: one resource that is a file, a
\* placeholder, a text that only looks like one, or empty; no resource; and
\* several resources of which the first is or is not a placeholder
ProducerKinds ==
    { <<Prop("resource", Text(PathA))>>,
      <<Prop("resource", Text(PathB))>>,
      <<Prop("resource", Text(Black))>>,
      <<Prop("resource", Text(BlackFile))>>,
      <<Prop("resource", Text(SpaceBlack))>>,
      <<Prop("resource", NoText)>>,
      <<Prop("length", Text(<<"9">>))>>,
      <<Prop("resource", Text(Black)), Prop("resource", Text(PathA))>>,
      <<Prop("resource", Text(PathA)), Prop("resource", Text(Black))>>,
      <<Prop("length", Text(<<"9">>)), Prop("resource", Text(PathB)),
        Prop("resource", Text(PathA))>> }

\* Documents with at most MaxProducers producer elements whose ids may
\* repeat, and one track whose playlist refers to both ids.
ProducerDocs ==
    { [producers |-> ps,
       playlists |-> <<Playlist("playlist0",
                         <<Entry("p1", NoText, Text(<<"4">>)),
                           Entry("p2", Text(<<"2">>), Text(<<"3">>))>>)>>,
       tractors |-> <<Tractor(<<Track("playlist0")>>)>>] :
        ps \in SeqsUpTo({Producer(id, props) : id \in {"p1", "p2"},
                                                props \in ProducerKinds},
                        MaxProducers) }

\* the document a parse starts from is one of the three families
IsDocument(d) == d \in EntryDocs \/ d \in TrackDocs \/ d \in ProducerDocs

-----------------------------------------------------------------------------
(* The walker's initial state and steps.                                   *)

WalkerIdle ==
    /\ pc = "producers"
    /\ producers = << >>
    /\ clips = << >>
    /\ origin = << >>
    /\ walked = << >>
    /\ ti = 0 /\ ki = 0 /\ li = 0 /\ ei = 0
    /\ position = 0
    /\ raised = ""

WalkerNext == BuildProducers \/ TractorLoop \/ TrackLoop \/ PlaylistLoop \/ EntryLoop

-----------------------------------------------------------------------------
(* The catalog (metadata.py).  An entry is a dict: a function from field   *)
(* names to values whose domain grows when annotation fields are added.    *)
(* An optional value is <<>> for None and <<v>> for v.                     *)

\* operations in one behaviour of the catalog
MaxOps == 3
\* files handed to one extract_metadata call
MaxFiles == 2
\* operations in one behaviour that starts from a stored catalog
MaxEdits == 2

None == << >>
Some(v) == <<v>>

NoFile == [exists |-> FALSE, entries |-> << >>]
FileOf(entries) == [exists |-> TRUE, entries |-> entries]

\* ANNOTATION_FIELDS (metadata.py, lines 23-31)
AnnotationDefaults ==
    [tags |-> << >>, rating |-> None, notes |-> "", motion_type |-> None,
     vibe |-> None, usable |-> TRUE, used_in |-> << >>]

AnnotationFields == DOMAIN AnnotationDefaults

\* the fields of an entry that the user sets
UserFields == {"tags", "rating", "notes", "motion_type", "vibe", "usable"}

UpperCase ==
    <<"A", "B", "C", "D", "E", "F", "G", "H", "I", "J", "K", "L", "M",
      "N", "O", "P", "Q", "R", "S", "T", "U", "V", "W", "X", "Y", "Z">>
LowerCase ==
    <<"a", "b", "c", "d", "e", "f", "g", "h", "i", "j", "k", "l", "m",
      "n", "o", "p", "q", "r", "s", "t", "u", "v", "w", "x", "y", "z">>

LowerTable ==
    [c \in {UpperCase[i] : i \in DOMAIN UpperCase} |->
        LowerCase[CHOOSE i \in DOMAIN UpperCase : UpperCase[i] = c]]

\* str.lower, character by character
LowerChar(c) == IF c \in DOMAIN LowerTable THEN LowerTable[c] ELSE c
Lower(s) == [i \in 1..Len(s) |-> LowerChar(s[i])]

\* `needle in haystack` on strings
Contains(haystack, needle) ==
    \E k \in 0..(Len(haystack) - Len(needle)) :
        SubSeq(haystack, k + 1, k + Len(needle)) = needle

\* the characters of the checked file names, in code point order
Collation ==
    <<" ", "-", ".", "0", "1", "2", "3", "4", "5", "6", "7", "8", "9">>
        \o UpperCase \o <<"_">> \o LowerCase

CodePointRank(c) == CHOOSE i \in DOMAIN Collation : Collation[i] = c

\* a < b on strings: the first differing character decides, a proper prefix
\* is smaller
RECURSIVE StrLess(_, _)
StrLess(a, b) ==
    IF b = << >> THEN FALSE
    ELSE IF a = << >> THEN TRUE
    ELSE IF Head(a) = Head(b) THEN StrLess(Tail(a), Tail(b))
    ELSE CodePointRank(Head(a)) < CodePointRank(Head(b))

\* list.sort(key=filename), which is stable: an entry goes after the entries
\* sorted before it whose filename is not greater
RECURSIVE InsertSorted(_, _)
InsertSorted(sorted, e) ==
    IF sorted = << >> THEN <<e>>
    ELSE IF StrLess(e.filename, sorted[Len(sorted)].filename)
         THEN Append(InsertSorted(SubSeq(sorted, 1, Len(sorted) - 1), e),
                     sorted[Len(sorted)])
         ELSE Append(sorted, e)

RECURSIVE SortByFilename(_)
SortByFilename(entries) ==
    IF entries = << >> THEN << >>
    ELSE InsertSorted(SortByFilename(SubSeq(entries, 1, Len(entries) - 1)),
                      entries[Len(entries)])

\* load_catalog: a missing file is the empty list
LoadCatalog(file) == IF file.exists THEN file.entries ELSE << >>

\* a variant that keeps looking after a match
RECURSIVE LastMatch(_, _, _)
LastMatch(entries, name_lower, i) ==
    IF i > Len(entries) THEN 0
    ELSE LET later == LastMatch(entries, name_lower, i + 1)
         IN  IF later # 0 THEN later
             ELSE IF Contains(Lower(entries[i].filename), name_lower) THEN i ELSE 0

\* get_clip_by_name, as the index of the entry returned; 0 for None
RECURSIVE FirstMatch(_, _, _)
FirstMatch(entries, name_lower, i) ==
    IF i > Len(entries) THEN 0
    ELSE IF Contains(Lower(entries[i].filename), name_lower) THEN i
    ELSE FirstMatch(entries, name_lower, i + 1)

GetClipByName(entries, name) == FirstMatch(entries, Lower(name), 1)

\* get_video_metadata on a file the prober accepts: the technical fields
TechnicalFields(file, probe) ==
    LET base == [filename |-> file.name, path |-> file.path,
                 size_bytes |-> probe.size,
                 duration_seconds |-> probe.duration, format |-> "mp4"]
    IN  IF probe.video
        THEN [f \in DOMAIN base \cup {"video"} |->
                 IF f = "video" THEN "h264" ELSE base[f]]
        ELSE base

\* one iteration of the loop of extract_metadata (lines 173-182)
ProbeResult(file, probe) ==
    IF probe.ok THEN TechnicalFields(file, probe)
    ELSE [filename |-> file.name, error |-> "ffprobe failed"]

\* what extract_metadata writes to catalog.json when it auto-saves
\* (lines 215-221): json.dump(results), given the file's content before
SavedCatalog(before, results) == FileOf(results)

\* a variant that sets every annotation field to its default
WithAnnotationFieldsReset(clip) ==
    [f \in DOMAIN clip \cup AnnotationFields |->
        IF f \in AnnotationFields THEN AnnotationDefaults[f] ELSE clip[f]]

\* `for field, default in ANNOTATION_FIELDS.items(): if field not in clip`
WithAnnotationFields(clip) ==
    [f \in DOMAIN clip \cup AnnotationFields |->
        IF f \in DOMAIN clip THEN clip[f] ELSE AnnotationDefaults[f]]

\* the elements of a list, as a set
Elements(list) == {list[i] : i \in DOMAIN list}

\* list(set(...)): the elements once each, in an order the set decides
Orderings(S) ==
    {q \in [1..Cardinality(S) -> S] : \A i, j \in DOMAIN q : i # j => q[i] # q[j]}

\* a variant without the lower limit
ClampRatingUpperOnly(rating) == IF rating < 5 THEN rating ELSE 5

\* max(1, min(5, rating))
ClampRating(rating) ==
    LET m == IF rating < 5 THEN rating ELSE 5
    IN  IF m > 1 THEN m ELSE 1

\* the scalar updates of annotate_clip (lines 282-291), tags set apart
WithScalars(clip, patch) ==
    [f \in DOMAIN clip |->
        CASE f = "rating" /\ patch.rating # None -> Some(ClampRating(patch.rating[1]))
          [] f = "notes" /\ patch.notes # None -> patch.notes[1]
          [] f = "motion_type" /\ patch.motion_type # None -> patch.motion_type
          [] f = "vibe" /\ patch.vibe # None -> patch.vibe
          [] f = "usable" /\ patch.usable # None -> patch.usable[1]
          [] OTHER -> clip[f]]

\* a variant that adds the new tags to the list as they come
AnnotatedEntriesTagsAppended(clip, patch) ==
    LET ready == WithAnnotationFields(clip)
        scalars == WithScalars(ready, patch)
    IN  IF patch.tags = None THEN {scalars}
        ELSE {[scalars EXCEPT !.tags = ready.tags \o patch.tags[1]]}

\* the entries annotate_clip may save for a match at index i: the tag list
\* is list(set(old + new)) in any order
AnnotatedEntries(clip, patch) ==
    LET ready == WithAnnotationFields(clip)
        scalars == WithScalars(ready, patch)
    IN  IF patch.tags = None THEN {scalars}
        ELSE {[scalars EXCEPT !.tags = order] :
                 order \in Orderings(Elements(ready.tags \o patch.tags[1]))}

-----------------------------------------------------------------------------
(* edit_clip_interactive (metadata.py, lines 447-506) and the part of      *)
(* browse_catalog that hands it a clip (lines 379-386 and 440-442).        *)

\* `clip[field] = value`: the key is added when the dict does not have it
Put(clip, field, value) ==
    [f \in DOMAIN clip \cup {field} |-> IF f = field THEN value ELSE clip[f]]

\* `clip.get(field, default)`
Get(clip, field, default) == IF field \in DOMAIN clip THEN clip[field] ELSE default

\* what browse_catalog holds: the loaded catalog, sorted by filename
BrowsedCatalog(file) == SortByFilename(LoadCatalog(file))

Option(name, chars) == [name |-> name, chars |-> chars]

\* motion_options (line 474)
MotionOptions ==
    << Option("Ascending", <<"A", "s", "c", "e", "n", "d", "i", "n", "g">>),
       Option("Descending", <<"D", "e", "s", "c", "e", "n", "d", "i", "n", "g">>),
       Option("Orbit", <<"O", "r", "b", "i", "t">>),
       Option("PullOut", <<"P", "u", "l", "l", "O", "u", "t">>),
       Option("PushIn", <<"P", "u", "s", "h", "I", "n">>),
       Option("Reveal", <<"R", "e", "v", "e", "a", "l">>),
       Option("Rotation", <<"R", "o", "t", "a", "t", "i", "o", "n">>),
       Option("Strafing", <<"S", "t", "r", "a", "f", "i", "n", "g">>),
       Option("Tracking", <<"T", "r", "a", "c", "k", "i", "n", "g">>) >>

\* vibe_options (line 485)
VibeOptions ==
    << Option("Calm", <<"C", "a", "l", "m">>),
       Option("Energetic", <<"E", "n", "e", "r", "g", "e", "t", "i", "c">>),
       Option("Epic", <<"E", "p", "i", "c">>),
       Option("Lonely", <<"L", "o", "n", "e", "l", "y">>),
       Option("Mysterious", <<"M", "y", "s", "t", "e", "r", "i", "o", "u", "s">>),
       Option("Nostalgic", <<"N", "o", "s", "t", "a", "l", "g", "i", "c">>) >>

\* `for opt in options: if answer.lower() in opt.lower()`: the index of the
\* first option that contains the answer, 0 when none does
RECURSIVE FuzzyMatch(_, _, _)
FuzzyMatch(options, answer, i) ==
    IF i > Len(options) THEN 0
    ELSE IF Contains(Lower(options[i].chars), Lower(answer)) THEN i
    ELSE FuzzyMatch(options, answer, i + 1)

\* The answer to the tags prompt is a sequence of words, "," and " "; a tag
\* is one word.  tags_input.split(",")
RECURSIVE SplitComma(_, _)
SplitComma(s, cur) ==
    IF s = << >> THEN <<cur>>
    ELSE IF Head(s) = "," THEN <<cur>> \o SplitComma(Tail(s), << >>)
    ELSE SplitComma(Tail(s), Append(cur, Head(s)))

\* `[t.strip() for t in parts if t.strip()]`
RECURSIVE StrippedTags(_)
StrippedTags(parts) ==
    IF parts = << >> THEN << >>
    ELSE LET t == StripRight(StripLeft(Head(parts)))
         IN  (IF t # << >> THEN <<t[1]>> ELSE << >>) \o StrippedTags(Tail(parts))

NewTags(tags_input) == StrippedTags(SplitComma(tags_input, << >>))

\* lines 460-465: an answer int() rejects is skipped
PromptedRating(clip, rating_input) ==
    IF rating_input # << >> /\ PyInt(rating_input).ok
    THEN Put(clip, "rating", Some(ClampRating(PyInt(rating_input).val)))
    ELSE clip

\* lines 473-497: motion type, vibe and notes
PromptedScalars(clip, answers) ==
    LET m == FuzzyMatch(MotionOptions, answers.motion, 1)
        v == FuzzyMatch(VibeOptions, answers.vibe, 1)
        c1 == IF answers.motion # << >> /\ m # 0
              THEN Put(clip, "motion_type", Some(MotionOptions[m].name)) ELSE clip
        c2 == IF answers.vibe # << >> /\ v # 0
              THEN Put(c1, "vibe", Some(VibeOptions[v].name)) ELSE c1
    IN  IF answers.notes # "" THEN Put(c2, "notes", answers.notes) ELSE c2

\* the clips the prompts may leave (lines 459-497): the tag list is
\* list(set(old + new)) in any order
EditedClips(clip, answers) ==
    LET scalars == PromptedScalars(PromptedRating(clip, answers.rating), answers)
    IN  IF answers.tags = << >> THEN {scalars}
        ELSE {Put(scalars, "tags", order) :
                 order \in Orderings(Elements(Get(clip, "tags", << >>)
                                              \o NewTags(answers.tags)))}

\* lines 500-504: the index of the first entry with the clip's filename
RECURSIVE FirstNamed(_, _, _)
FirstNamed(entries, filename, i) ==
    IF i > Len(entries) THEN 0
    ELSE IF entries[i].filename = filename THEN i
    ELSE FirstNamed(entries, filename, i + 1)

-----------------------------------------------------------------------------
(* show_catalog_summary (metadata.py, lines 298-364).                      *)

\* a variant that only takes a missing list for an empty catalog
CatalogIsNone(loaded) == FALSE

\* `if not catalog`
CatalogIsEmpty(loaded) == loaded = << >>

Marker30fps == <<"-", "3", "0", "f", "p", "s">>

\* sum(1 for c in catalog if test(c)), given the test's outcome per entry
CountIf(tests) == Cardinality({i \in DOMAIN tests : tests[i]})

\* sum(c.get(field, 0) for c in catalog)
RECURSIVE SumOf(_, _)
SumOf(entries, field) ==
    IF entries = << >> THEN 0
    ELSE Get(Head(entries), field, 0) + SumOf(Tail(entries), field)

\* the tests of lines 312-318: a value counts when it is truthy
IsConverted(c) == Contains(Get(c, "filename", << >>), Marker30fps)
IsRated(c) == Get(c, "rating", None) # None /\ Get(c, "rating", None)[1] # 0
IsTagged(c) == Get(c, "tags", << >>) # << >>
HasMotion(c) == Get(c, "motion_type", None) # None /\ Get(c, "motion_type", None)[1] # ""
HasVibe(c) == Get(c, "vibe", None) # None /\ Get(c, "vibe", None)[1] # ""
IsUnusable(c) == Get(c, "usable", TRUE) = FALSE

\* f"{count/total_clips*100:.0f}": the quotient rounded to the nearest
\* integer, a half to the even one
Percentage(count, total_clips) ==
    LET q == (count * 100) \div total_clips
        r == (count * 100) % total_clips
    IN  IF 2 * r > total_clips \/ (2 * r = total_clips /\ q % 2 = 1) THEN q + 1 ELSE q

Row(category, count, total_clips) ==
    [category |-> category, count |-> count,
     percentage |-> Percentage(count, total_clips)]

\* all_tags (lines 321-324): how often each tag occurs
RECURSIVE TagCount(_, _)
TagCount(entries, tag) ==
    IF entries = << >> THEN 0
    ELSE Cardinality({i \in DOMAIN Get(Head(entries), "tags", << >>) :
                         Head(entries).tags[i] = tag})
         + TagCount(Tail(entries), tag)

AllTags(entries) ==
    [tag \in UNION {Elements(Get(entries[i], "tags", << >>)) : i \in DOMAIN entries} |->
        TagCount(entries, tag)]

\* rated_clips.sort(key=rating, reverse=True), which is stable
RECURSIVE InsertByRating(_, _)
InsertByRating(sorted, c) ==
    IF sorted = << >> THEN <<c>>
    ELSE IF sorted[Len(sorted)].rating[1] < c.rating[1]
         THEN Append(InsertByRating(SubSeq(sorted, 1, Len(sorted) - 1), c),
                     sorted[Len(sorted)])
         ELSE Append(sorted, c)

RECURSIVE TopRated(_)
TopRated(entries) ==
    IF entries = << >> THEN << >>
    ELSE LET before == TopRated(SubSeq(entries, 1, Len(entries) - 1))
             c == entries[Len(entries)]
         IN  IF IsRated(c) THEN InsertByRating(before, c) ELSE before

\* lines 307-364 on the loaded list: a division by total_clips = 0 raises
Summary(loaded) ==
    LET total_clips == Len(loaded)
        converted == CountIf([i \in DOMAIN loaded |-> IsConverted(loaded[i])])
        rated == CountIf([i \in DOMAIN loaded |-> IsRated(loaded[i])])
        tagged == CountIf([i \in DOMAIN loaded |-> IsTagged(loaded[i])])
        with_motion == CountIf([i \in DOMAIN loaded |-> HasMotion(loaded[i])])
        with_vibe == CountIf([i \in DOMAIN loaded |-> HasVibe(loaded[i])])
        unusable == CountIf([i \in DOMAIN loaded |-> IsUnusable(loaded[i])])
        top == TopRated(loaded)
    IN  IF total_clips = 0 THEN [reported |-> "ZeroDivisionError"]
        ELSE [reported |-> "summary",
              total_clips |-> total_clips,
              total_duration |-> SumOf(loaded, "duration_seconds"),
              total_size |-> SumOf(loaded, "size_bytes"),
              rows |-> << Row("Original files", total_clips - converted, total_clips),
                          Row("30fps converted", converted, total_clips),
                          Row("Rated", rated, total_clips),
                          Row("Tagged", tagged, total_clips),
                          Row("Motion classified", with_motion, total_clips),
                          Row("Vibe classified", with_vibe, total_clips) >>
                       \o (IF unusable # 0
                           THEN <<Row("Marked unusable", unusable, total_clips)>>
                           ELSE << >>),
              tags |-> AllTags(loaded),
              top_rated |-> [i \in 1..(IF Len(top) < 5 THEN Len(top) ELSE 5) |->
                                top[i].filename]]

-----------------------------------------------------------------------------
(* The inputs of the catalog operations.                                   *)

File(name, path) == [name |-> name, path |-> path]

Files == { File(<<"a", "1">>, "/raw/a1"), File(<<"A", "b">>, "/raw/Ab") }

\* what the prober and stat return for a file: ffprobe is outside this code
Probes ==
    { [ok |-> TRUE, size |-> 1, duration |-> 10, video |-> TRUE],
      [ok |-> TRUE, size |-> 2, duration |-> 20, video |-> FALSE],
      [ok |-> FALSE, size |-> 0, duration |-> 0, video |-> FALSE] }

\* where extract_metadata saves: the file named by output_path (a file of
\* the caller's, not part of this state), the catalog (config), or nowhere
SaveModes == {"output_path", "config", "none"}

Needles == { <<"a">>, <<"B">>, <<"z">> }

NoPatch ==
    [tags |-> None, rating |-> None, notes |-> None, motion_type |-> None,
     vibe |-> None, usable |-> None]

Patches ==
    { NoPatch,
      [NoPatch EXCEPT !.tags = Some(<<"epic">>)],
      [NoPatch EXCEPT !.tags = Some(<<"sun", "epic">>)],
      [NoPatch EXCEPT !.rating = Some(7)],
      [NoPatch EXCEPT !.rating = Some(0 - 3)],
      [NoPatch EXCEPT !.rating = Some(4), !.notes = Some("windy")],
      [NoPatch EXCEPT !.motion_type = Some("Orbit"), !.vibe = Some("Calm"),
                      !.usable = Some(FALSE)],
      [NoPatch EXCEPT !.tags = Some(<<"epic">>), !.rating = Some(2),
                      !.notes = Some(""), !.usable = Some(TRUE)] }

NoAnswers ==
    [rating |-> << >>, tags |-> << >>, motion |-> << >>, vibe |-> << >>, notes |-> ""]

\* the answers to the prompts of edit_clip_interactive; Enter alone is the
\* empty answer
EditAnswers ==
    { NoAnswers,
      [NoAnswers EXCEPT !.rating = <<"7">>,
                        !.tags = <<"sun", ",", " ", "epic", ",">>],
      [NoAnswers EXCEPT !.rating = <<"x">>, !.tags = <<",", " ">>,
                        !.motion = <<"o">>, !.vibe = <<"E">>, !.notes = "windy"],
      [NoAnswers EXCEPT !.rating = <<"-", "3">>, !.motion = <<"z", "z">>,
                        !.vibe = <<"c">>],
      [NoAnswers EXCEPT !.rating = <<" ", "0">>, !.tags = <<" ", "epic", " ">>,
                        !.motion = <<"R", "E">>] }

\* entries as extract_metadata writes them, as annotate_clip leaves them and
\* as edit_clip_interactive leaves them
PlainA1 == TechnicalFields(File(<<"a", "1">>, "/raw/a1"),
                           [ok |-> TRUE, size |-> 1, duration |-> 10, video |-> TRUE])
PlainAb == TechnicalFields(File(<<"A", "b">>, "/raw/Ab"),
                           [ok |-> TRUE, size |-> 2, duration |-> 20, video |-> FALSE])
Converted == TechnicalFields(File(<<"a", "-", "3", "0", "f", "p", "s">>, "/raw/a-30fps"),
                             [ok |-> TRUE, size |-> 1, duration |-> 10, video |-> TRUE])
Failed == ProbeResult(File(<<"A", "b">>, "/raw/Ab"),
                      [ok |-> FALSE, size |-> 0, duration |-> 0, video |-> FALSE])
AnnotatedA1 ==
    CHOOSE e \in AnnotatedEntries(PlainA1,
                    [NoPatch EXCEPT !.tags = Some(<<"epic">>), !.rating = Some(4),
                                    !.notes = Some("windy"), !.usable = Some(FALSE)]) : TRUE
RatedAb == CHOOSE e \in EditedClips(PlainAb, [NoAnswers EXCEPT !.rating = <<"5">>]) : TRUE

\* the catalog files a behaviour of the store starts from
StoredCatalogs ==
    { NoFile,
      FileOf(<< >>),
      FileOf(<<PlainA1>>),
      FileOf(<<PlainA1, PlainAb>>),
      FileOf(<<AnnotatedA1, RatedAb>>),
      FileOf(<<Failed, Converted, AnnotatedA1>>) }

NoOperation ==
    [n |-> 0, op |-> "none", saved |-> FALSE,
     before |-> NoFile, args |-> << >>, found |-> 0, result |-> << >>]

-----------------------------------------------------------------------------
(* The catalog operations.                                                 *)

\* extract_metadata(files, output_path, config) (lines 157-223)
ExtractMetadata(files, probes, mode) ==
    LET results == [i \in DOMAIN files |-> ProbeResult(files[i], probes[i])]
    IN  /\ IF mode = "config"
           THEN catalog' = SavedCatalog(catalog, results)
           ELSE UNCHANGED catalog
        /\ last' = [n |-> last.n + 1, op |-> "extract_metadata",
                    saved |-> (mode = "config"),
                    before |-> catalog, args |-> << >>, found |-> 0,
                    result |-> << >>]
        /\ UNCHANGED <<walkerVars, toolVars>>

\* a variant that adds an entry for a name it does not find
AnnotateClipUpsert(clip_name, patch) ==
    LET loaded == LoadCatalog(catalog)
        i == GetClipByName(loaded, clip_name)
    IN  /\ \E clip \in AnnotatedEntries(IF i = 0 THEN [filename |-> clip_name]
                                                ELSE loaded[i], patch) :
               catalog' = FileOf(IF i = 0 THEN Append(loaded, clip)
                                          ELSE [loaded EXCEPT ![i] = clip])
        /\ last' = [n |-> last.n + 1, op |-> "annotate_clip", saved |-> TRUE,
                    before |-> catalog,
                    args |-> [clip_name |-> clip_name, patch |-> patch],
                    found |-> i, result |-> TRUE]
        /\ UNCHANGED <<walkerVars, toolVars>>

\* a variant that saves what it loaded before it looks the name up
AnnotateClipSaving(clip_name, patch) ==
    LET loaded == LoadCatalog(catalog)
        i == GetClipByName(loaded, clip_name)
    IN  /\ IF i = 0
           THEN catalog' = FileOf(loaded)
           ELSE \E clip \in AnnotatedEntries(loaded[i], patch) :
                    catalog' = FileOf([loaded EXCEPT ![i] = clip])
        /\ last' = [n |-> last.n + 1, op |-> "annotate_clip", saved |-> TRUE,
                    before |-> catalog,
                    args |-> [clip_name |-> clip_name, patch |-> patch],
                    found |-> i, result |-> (i # 0)]
        /\ UNCHANGED <<walkerVars, toolVars>>

\* a variant that annotates every entry the name matches
AnnotateClipEveryMatch(clip_name, patch) ==
    LET loaded == LoadCatalog(catalog)
        i == GetClipByName(loaded, clip_name)
    IN  /\ IF i = 0
           THEN UNCHANGED catalog
           ELSE catalog' = FileOf(
                    [k \in DOMAIN loaded |->
                        IF Contains(Lower(loaded[k].filename), Lower(clip_name))
                        THEN CHOOSE clip \in AnnotatedEntries(loaded[k], patch) : TRUE
                        ELSE loaded[k]])
        /\ last' = [n |-> last.n + 1, op |-> "annotate_clip", saved |-> (i # 0),
                    before |-> catalog,
                    args |-> [clip_name |-> clip_name, patch |-> patch],
                    found |-> i, result |-> (i # 0)]
        /\ UNCHANGED <<walkerVars, toolVars>>

\* annotate_clip(clip_name, tags, rating, notes, motion_type, vibe, usable)
\* (lines 252-295); found is the entry get_clip_by_name returned, result
\* is what annotate_clip returns
AnnotateClip(clip_name, patch) ==
    LET loaded == LoadCatalog(catalog)
        i == GetClipByName(loaded, clip_name)
    IN  /\ IF i = 0
           THEN UNCHANGED catalog
           ELSE \E clip \in AnnotatedEntries(loaded[i], patch) :
                    catalog' = FileOf([loaded EXCEPT ![i] = clip])
        /\ last' = [n |-> last.n + 1, op |-> "annotate_clip", saved |-> (i # 0),
                    before |-> catalog,
                    args |-> [clip_name |-> clip_name, patch |-> patch],
                    found |-> i, result |-> (i # 0)]
        /\ UNCHANGED <<walkerVars, toolVars>>

\* edit_clip_interactive(clip, config) (lines 447-506), the answers to its
\* prompts given
SaveEdited(clip, answers, edited) ==
    LET loaded == LoadCatalog(catalog)
        i == FirstNamed(loaded, edited.filename, 1)
    IN  /\ catalog' = FileOf(IF i = 0 THEN loaded ELSE [loaded EXCEPT ![i] = edited])
        /\ last' = [n |-> last.n + 1, op |-> "edit_clip_interactive", saved |-> TRUE,
                    before |-> catalog,
                    args |-> [clip |-> clip, answers |-> answers],
                    found |-> i, result |-> << >>]

EditClipInteractive(clip, answers) ==
    \E edited \in EditedClips(clip, answers) :
        /\ SaveEdited(clip, answers, edited)
        /\ UNCHANGED <<walkerVars, toolVars>>

\* show_catalog_summary(config) (lines 298-364); result is what it prints
ShowCatalogSummary ==
    LET loaded == LoadCatalog(catalog)
    IN  /\ last' = [n |-> last.n + 1, op |-> "show_catalog_summary", saved |-> FALSE,
                    before |-> catalog, args |-> << >>, found |-> 0,
                    result |-> IF CatalogIsEmpty(loaded) THEN [reported |-> "empty"]
                               ELSE Summary(loaded)]
        /\ UNCHANGED catalog
        /\ UNCHANGED <<walkerVars, toolVars>>

CatalogIdle ==
    /\ catalog = NoFile
    /\ last = NoOperation

CatalogNext ==
    \/ \E files \in SeqsUpTo(Files, MaxFiles) :
           \E probes \in [DOMAIN files -> Probes] :
               \E mode \in SaveModes :
                   last.n < MaxOps /\ ExtractMetadata(files, probes, mode)
    \/ \E clip_name \in Needles : \E patch \in Patches :
           last.n < MaxOps /\ AnnotateClip(clip_name, patch)

\* the operations on a stored catalog: annotate_clip, the edit command of
\* browse_catalog (which shows the sorted list and edits entry num of it),
\* and show_catalog_summary
StoreNext ==
    \/ \E clip_name \in Needles : \E patch \in Patches :
           last.n < MaxEdits /\ AnnotateClip(clip_name, patch)
    \/ \E num \in DOMAIN BrowsedCatalog(catalog) : \E answers \in EditAnswers :
           last.n < MaxEdits /\ EditClipInteractive(BrowsedCatalog(catalog)[num], answers)
    \/ last.n < MaxEdits /\ ShowCatalogSummary

-----------------------------------------------------------------------------
(* Timecodes (extract.py, lines 54-60) and the frame rate they are         *)
(* computed with (lines 68-77).  Python holds the frame rate and the       *)
(* seconds as doubles; here a frame rate is the quotient [num, den] of two *)
(* integers and the seconds are an exact fraction.  Where the exact value  *)
(* lies halfway between two thousandths the double lies a little to one    *)
(* side of it, and either neighbour is a possible output.                  *)

\* frames of the checked timecodes: 0..MaxFrames, and the frame counts in
\* LongFrames
MaxFrames == 9000

NoProfile == [present |-> FALSE, num |-> NoText, den |-> NoText]
ProfileOf(num, den) == [present |-> TRUE, num |-> num, den |-> den]

\* `fps = 30.0` (line 69)
DefaultFps == [num |-> 30, den |-> 1]

\* lines 70-77: the first profile element decides; a value int() rejects or
\* a zero denominator leaves the default
ProfileFps(p) ==
    IF ~p.present THEN DefaultFps
    ELSE LET n == PyInt(IF p.num.present THEN p.num.text ELSE <<"3", "0">>)
             d == PyInt(IF p.den.present THEN p.den.text ELSE <<"1">>)
         IN  IF ~n.ok \/ ~d.ok THEN DefaultFps
             ELSE IF d.val = 0 THEN DefaultFps
             ELSE [num |-> n.val, den |-> d.val]

\* the decimal digits of n >= 0, at least width of them
RECURSIVE ZeroPadded(_, _)
ZeroPadded(n, width) ==
    IF n < 10 /\ width <= 1 THEN <<Digits[n + 1]>>
    ELSE Append(ZeroPadded(n \div 10, width - 1), Digits[(n % 10) + 1])

\* the format 02d: the sign counts towards the width
Format02d(n) ==
    IF n < 0 THEN <<"-">> \o ZeroPadded(0 - n, 1) ELSE ZeroPadded(n, 2)

\* the format 06.3f of millis / 1000
Format063f(millis) ==
    ZeroPadded(millis \div 1000, 2) \o <<".">> \o ZeroPadded(millis % 1000, 3)

\* a variant that prints whole seconds only
NearestThousandthsTruncated(p, q) == {((p \div q) \div 1000) * 1000}

\* p / q rounded to an integer, as the format .3f rounds seconds * 1000
NearestThousandths(p, q) ==
    LET low == p \div q
        twice == 2 * (p % q)
    IN  IF twice < q THEN {low}
        ELSE IF twice > q THEN {low + 1}
        ELSE {low, low + 1}

NoTimecode == [raised |-> "", text |-> << >>]

\* frames_to_timecode(frames, fps): the set of its possible outcomes.
\* total_seconds is p / q with q > 0.
FramesToTimecode(frame_count, rate) ==
    IF rate.num = 0 THEN {[raised |-> "ZeroDivisionError", text |-> << >>]}
    ELSE LET p == IF rate.num > 0 THEN frame_count * rate.den
                  ELSE 0 - (frame_count * rate.den)
             q == IF rate.num > 0 THEN rate.num ELSE 0 - rate.num
             hours == p \div (3600 * q)
             minutes == (p % (3600 * q)) \div (60 * q)
             seconds == p % (60 * q)
         IN  { [raised |-> "",
                text |-> Format02d(hours) \o <<":">> \o Format02d(minutes)
                         \o <<":">> \o Format063f(millis)] :
               millis \in NearestThousandths(seconds * 1000, q) }

\* frame counts of an hour and more at 30 and 30000/1001 frames a second
LongFrames == {0 - 1, 107892, 107999, 108000, 215999}

Frames == (0..MaxFrames) \cup LongFrames

\* no profile; NTSC; 25 with the denominator left out; a numerator int()
\* rejects; a zero denominator; a zero and a negative numerator
Profiles ==
    { NoProfile,
      ProfileOf(Text(<<"3", "0", "0", "0", "0">>), Text(<<"1", "0", "0", "1">>)),
      ProfileOf(Text(<<"2", "5">>), NoText),
      ProfileOf(Text(<<"x">>), Text(<<"1">>)),
      ProfileOf(Text(<<"3", "0">>), Text(<<"0">>)),
      ProfileOf(Text(<<"0">>), Text(<<"1">>)),
      ProfileOf(Text(<<"-", "3", "0">>), Text(<<"1">>)) }

\* lines 68-77
ReadProfile ==
    /\ tpc = "profile"
    /\ fps' = ProfileFps(profile)
    /\ tpc' = "timecode"
    /\ UNCHANGED <<profile, frames, timecode>>
    /\ UNCHANGED <<walkerVars, catalogVars, exceptTimecode>>

\* clip.in_timecode(): frames_to_timecode(self.in_point, self.fps)
InTimecode ==
    /\ tpc = "timecode"
    /\ timecode' \in FramesToTimecode(frames, fps)
    /\ tpc' = "done"
    /\ UNCHANGED <<profile, frames, fps>>
    /\ UNCHANGED <<walkerVars, catalogVars, exceptTimecode>>

TimecodeIdle ==
    /\ profile = NoProfile
    /\ frames = 0
    /\ fps = DefaultFps
    /\ timecode = NoTimecode
    /\ tpc = "idle"

TimecodeNext == ReadProfile \/ InTimecode


-----------------------------------------------------------------------------
(* browse_catalog (metadata.py, lines 377-444): the sorted list, its pages *)
(* and the commands answered at the prompt.                                *)

\* `page_size = 15` (line 389)
page_size == 15

\* commands answered in one run of browse_catalog
MaxCommands == 3

Min(a, b) == IF a <= b THEN a ELSE b

\* str.split(): the words between runs of whitespace
RECURSIVE SplitWords(_, _)
SplitWords(s, cur) ==
    IF s = << >> THEN (IF cur = << >> THEN << >> ELSE <<cur>>)
    ELSE IF IsSpace(Head(s))
         THEN (IF cur = << >> THEN << >> ELSE <<cur>>) \o SplitWords(Tail(s), << >>)
    ELSE SplitWords(Tail(s), Append(cur, Head(s)))

\* `total_pages = (len(catalog) + page_size - 1) // page_size` (line 391)
TotalPages(n) == (n + page_size - 1) \div page_size

\* a variant that turns the page whenever it is asked to
NextPageUnguarded(p, pages) == TRUE

\* `page < total_pages - 1` (line 434)
NextPageAllowed(p, pages) == p < pages - 1

\* lines 395-397: catalog[start:end]
PageSlice(list, p) ==
    LET start == p * page_size
        end == Min(start + page_size, Len(list))
    IN  SubSeq(list, start + 1, end)

\* line 440: the clip number of an edit command, clip_number being the
\* answer to the prompt Clip #; ok is FALSE for ValueError and IndexError
EditNumber(command, clip_number) ==
    IF Contains(command, <<" ">>)
    THEN LET words == SplitWords(command, << >>)
         IN  IF Len(words) < 2 THEN [ok |-> FALSE, val |-> 0] ELSE PyInt(words[2])
    ELSE PyInt(clip_number)

\* lines 379-391
BrowseLoad ==
    /\ bpc = "load"
    /\ LET loaded == LoadCatalog(catalog)
       IN  IF loaded = << >>
           THEN bpc' = "empty" /\ UNCHANGED <<listed, page, total_pages>>
           ELSE /\ listed' = SortByFilename(loaded)
                /\ page' = 0
                /\ total_pages' = TotalPages(Len(loaded))
                /\ bpc' = "show"
    /\ UNCHANGED <<page_clips, cmd, commands>>
    /\ UNCHANGED <<walkerVars, catalogVars, exceptBrowse>>

\* lines 394-428
ShowPage ==
    /\ bpc = "show"
    /\ page_clips' = PageSlice(listed, page)
    /\ bpc' = "prompt"
    /\ UNCHANGED <<listed, page, total_pages, cmd, commands>>
    /\ UNCHANGED <<walkerVars, catalogVars, exceptBrowse>>

\* lines 430-444 for a command other than an edit that reaches
\* edit_clip_interactive
BrowseCommand(command, clip_number) ==
    /\ bpc = "prompt"
    /\ commands < MaxCommands
    /\ cmd' = command
    /\ commands' = commands + 1
    /\ LET lower == Lower(command)
           num == EditNumber(command, clip_number)
       IN  IF lower = <<"q">>
           THEN bpc' = "quit" /\ UNCHANGED page
           ELSE IF lower = <<"n">> /\ NextPageAllowed(page, total_pages)
           THEN bpc' = "show" /\ page' = page + 1
           ELSE IF lower = <<"p">> /\ page > 0
           THEN bpc' = "show" /\ page' = page - 1
           ELSE /\ ~(StartsWith(lower, <<"e">>) /\ num.ok
                     /\ 1 <= num.val /\ num.val <= Len(listed))
                /\ bpc' = "show" /\ UNCHANGED page
    /\ UNCHANGED <<listed, total_pages, page_clips>>
    /\ UNCHANGED <<walkerVars, catalogVars, exceptBrowse>>

\* lines 438-442 with a clip number of the list: edit_clip_interactive
\* changes the dict catalog[num-1] in place and saves it
BrowseEdit(command, clip_number, answers) ==
    /\ bpc = "prompt"
    /\ commands < MaxCommands
    /\ LET lower == Lower(command)
           num == EditNumber(command, clip_number)
       IN  /\ lower # <<"q">>
           /\ ~(lower = <<"n">> /\ NextPageAllowed(page, total_pages))
           /\ ~(lower = <<"p">> /\ page > 0)
           /\ StartsWith(lower, <<"e">>)
           /\ num.ok /\ 1 <= num.val /\ num.val <= Len(listed)
           /\ \E edited \in EditedClips(listed[num.val], answers) :
                  /\ SaveEdited(listed[num.val], answers, edited)
                  /\ listed' = [listed EXCEPT ![num.val] = edited]
                  /\ page_clips' =
                         [j \in DOMAIN page_clips |->
                             IF page * page_size + j = num.val THEN edited
                             ELSE page_clips[j]]
    /\ cmd' = command
    /\ commands' = commands + 1
    /\ bpc' = "show"
    /\ UNCHANGED <<page, total_pages>>
    /\ UNCHANGED <<walkerVars, exceptBrowse>>

BrowseIdle ==
    /\ listed = << >>
    /\ page = 0
    /\ total_pages = 0
    /\ page_clips = << >>
    /\ cmd = << >>
    /\ commands = 0
    /\ bpc = "idle"

\* the answers to the prompt Action, and to the prompt Clip # that follows
\* an edit command without a number
Commands ==
    { <<"q">>, <<"n">>, <<"N">>, <<"p">>, <<"x">>, << >>, <<"e">>, <<"e", " ">>,
      <<"e", " ", "1">>, <<"E", " ", " ", "1", "6">>, <<"e", " ", "0">>,
      <<"e", " ", "3", "2">>, <<"e", "1">>, <<"e", " ", "x">> }

ClipNumbers == { << >>, <<"2">>, <<"9", "9">> }

BrowseAnswers ==
    { NoAnswers,
      [NoAnswers EXCEPT !.rating = <<"4">>, !.motion = <<"o">>] }

\* the file name of the k-th file of a shoot, k < 100
FootageName(k) == <<"c", Digits[(k \div 10) + 1], Digits[(k % 10) + 1]>>

\* a catalog of n entries, the later file first
Footage(n) ==
    [i \in 1..n |->
        TechnicalFields([name |-> FootageName(n - i), path |-> "/raw"],
                        [ok |-> TRUE, size |-> 1, duration |-> 10, video |-> FALSE])]

\* no file, and catalogs of one entry, of one full page, of one entry more,
\* and of two pages and one entry
BrowsedFiles ==
    { NoFile, FileOf(Footage(1)), FileOf(Footage(page_size)),
      FileOf(Footage(page_size + 1)), FileOf(Footage(2 * page_size + 1)) }

BrowseNext ==
    \/ BrowseLoad
    \/ ShowPage
    \/ \E command \in Commands : \E clip_number \in ClipNumbers :
           BrowseCommand(command, clip_number)
    \/ \E command \in Commands : \E clip_number \in ClipNumbers :
           \E answers \in BrowseAnswers :
               BrowseEdit(command, clip_number, answers)


-----------------------------------------------------------------------------
(* Two invocations of the tool against one catalog file.  Nothing in       *)
(* load_catalog and save_catalog (metadata.py, lines 226-240) locks the    *)
(* file or compares versions, so the steps of the two interleave freely:   *)
(* annotate_clip loads (line 267) and later saves (line 293); the edit     *)
(* command of browse_catalog works on a dict of the list loaded at line    *)
(* 379, loads again at line 500 and saves at line 505.                     *)

Invocations == {1, 2}

AnnotateJob(clip_name, patch) ==
    [op |-> "annotate_clip", clip_name |-> clip_name, patch |-> patch,
     num |-> 0, answers |-> NoAnswers]

\* browse_catalog answered with the edit command for clip number num
EditJob(num, answers) ==
    [op |-> "browse_catalog", clip_name |-> << >>, patch |-> NoPatch,
     num |-> num, answers |-> answers]

RaceJobs ==
    { AnnotateJob(<<"a">>, [NoPatch EXCEPT !.rating = Some(4), !.notes = Some("windy")]),
      AnnotateJob(<<"B">>, [NoPatch EXCEPT !.tags = Some(<<"epic">>)]),
      AnnotateJob(<<"z">>, [NoPatch EXCEPT !.rating = Some(2)]),
      EditJob(1, [NoAnswers EXCEPT !.rating = <<"5">>, !.vibe = <<"c">>]),
      EditJob(2, [NoAnswers EXCEPT !.notes = "dusk"]),
      EditJob(4, NoAnswers) }

NoMemory == [catalog |-> << >>, clip |-> << >>]

Event(p, step, file) == [inv |-> p, step |-> step, file |-> file]

\* line 267 of annotate_clip, lines 379-386 of browse_catalog
RaceLoad(p) ==
    /\ rpc[p] = "start"
    /\ LET loaded == LoadCatalog(catalog)
       IN  IF job[p].op = "annotate_clip"
           THEN /\ memory' = [memory EXCEPT ![p] = [catalog |-> loaded, clip |-> << >>]]
                /\ rpc' = [rpc EXCEPT ![p] = "loaded"]
           ELSE IF loaded = << >>
           THEN /\ rpc' = [rpc EXCEPT ![p] = "returned"]
                /\ UNCHANGED memory
           ELSE /\ memory' = [memory EXCEPT ![p] = [catalog |-> SortByFilename(loaded),
                                                    clip |-> << >>]]
                /\ rpc' = [rpc EXCEPT ![p] = "loaded"]
    /\ events' = Append(events, Event(p, "load", catalog))
    /\ UNCHANGED <<job, stored>>
    /\ UNCHANGED <<walkerVars, catalogVars, exceptRace>>

\* a variant that loads the file again before it changes and saves it
AnnotateSaveReloading(p) ==
    /\ rpc[p] = "loaded"
    /\ job[p].op = "annotate_clip"
    /\ LET loaded == LoadCatalog(catalog)
           i == GetClipByName(loaded, job[p].clip_name)
       IN  IF i = 0
           THEN /\ rpc' = [rpc EXCEPT ![p] = "returned"]
                /\ UNCHANGED <<memory, catalog, events>>
           ELSE \E clip \in AnnotatedEntries(loaded[i], job[p].patch) :
                    /\ memory' = [memory EXCEPT ![p].catalog = [loaded EXCEPT ![i] = clip]]
                    /\ catalog' = FileOf(memory'[p].catalog)
                    /\ rpc' = [rpc EXCEPT ![p] = "saved"]
                    /\ events' = Append(events, Event(p, "save", catalog'))
    /\ UNCHANGED <<job, stored, last>>
    /\ UNCHANGED <<walkerVars, exceptRace>>

\* lines 268-295 of annotate_clip: the lookup and the changes in the list
\* loaded earlier, then save_catalog
AnnotateSave(p) ==
    /\ rpc[p] = "loaded"
    /\ job[p].op = "annotate_clip"
    /\ LET loaded == memory[p].catalog
           i == GetClipByName(loaded, job[p].clip_name)
       IN  IF i = 0
           THEN /\ rpc' = [rpc EXCEPT ![p] = "returned"]
                /\ UNCHANGED <<memory, catalog, events>>
           ELSE \E clip \in AnnotatedEntries(loaded[i], job[p].patch) :
                    /\ memory' = [memory EXCEPT ![p].catalog = [loaded EXCEPT ![i] = clip]]
                    /\ catalog' = FileOf(memory'[p].catalog)
                    /\ rpc' = [rpc EXCEPT ![p] = "saved"]
                    /\ events' = Append(events, Event(p, "save", catalog'))
    /\ UNCHANGED <<job, stored, last>>
    /\ UNCHANGED <<walkerVars, exceptRace>>

\* lines 440-442 and 449-504: the clip of the list is edited, the file is
\* loaded again and its first entry with the clip's filename is replaced
EditReload(p) ==
    /\ rpc[p] = "loaded"
    /\ job[p].op = "browse_catalog"
    /\ IF job[p].num \in 1..Len(memory[p].catalog)
       THEN \E edited \in EditedClips(memory[p].catalog[job[p].num], job[p].answers) :
                LET loaded == LoadCatalog(catalog)
                    i == FirstNamed(loaded, edited.filename, 1)
                IN  /\ memory' = [memory EXCEPT ![p] =
                           [catalog |-> IF i = 0 THEN loaded
                                        ELSE [loaded EXCEPT ![i] = edited],
                            clip |-> <<edited>>]]
                    /\ rpc' = [rpc EXCEPT ![p] = "reloaded"]
                    /\ events' = Append(events, Event(p, "reload", catalog))
       ELSE /\ rpc' = [rpc EXCEPT ![p] = "returned"]
            /\ UNCHANGED <<memory, events>>
    /\ UNCHANGED <<job, stored>>
    /\ UNCHANGED <<walkerVars, catalogVars, exceptRace>>

\* line 505
EditWrite(p) ==
    /\ rpc[p] = "reloaded"
    /\ catalog' = FileOf(memory[p].catalog)
    /\ rpc' = [rpc EXCEPT ![p] = "saved"]
    /\ events' = Append(events, Event(p, "save", catalog'))
    /\ UNCHANGED <<job, memory, stored, last>>
    /\ UNCHANGED <<walkerVars, exceptRace>>

RaceIdle ==
    /\ job = << >>
    /\ rpc = << >>
    /\ memory = << >>
    /\ stored = NoFile
    /\ events = << >>

RaceNext ==
    \/ \E p \in Invocations : RaceLoad(p)
    \/ \E p \in Invocations : AnnotateSave(p)
    \/ \E p \in Invocations : EditReload(p)
    \/ \E p \in Invocations : EditWrite(p)


-----------------------------------------------------------------------------
(* extract_clips (extract.py, lines 208-329).  The project file is parsed  *)
(* by the walker above; the segment extractor is ffmpeg, whose outcome is  *)
(* an input.                                                               *)

\* Path.name: the last component
PathName(path) ==
    LET parts == SplitSlash(path, << >>) IN parts[Len(parts)]

\* Path.stem: the name up to its last dot, unless that dot leads or ends it
PathStem(path) ==
    LET name == PathName(path)
        dots == {i \in DOMAIN name : name[i] = "."}
        last_dot == IF dots = {} THEN 0
                    ELSE CHOOSE i \in dots : \A j \in dots : j <= i
    IN  IF 1 < last_dot /\ last_dot < Len(name)
        THEN SubSeq(name, 1, last_dot - 1)
        ELSE name

UpperChar(c) ==
    IF \E i \in 1..26 : LowerCase[i] = c
    THEN UpperCase[CHOOSE i \in 1..26 : LowerCase[i] = c]
    ELSE c

\* str.capitalize()
Capitalize(s) ==
    IF s = << >> THEN << >> ELSE <<UpperChar(Head(s))>> \o Lower(Tail(s))

\* `Path("BRoll")` (line 257), as its components
OutPath == << <<"B", "R", "o", "l", "l">> >>

\* `out_path / category[0].capitalize() / category[1]` (line 291)
CategoryDir(category) == OutPath \o <<Capitalize(category.type), category.sub>>

\* `f"{source_stem}_clip{i:03d}.mp4"` (line 299)
OutputName(clip, i) ==
    PathStem(clip.source_path) \o <<"_", "c", "l", "i", "p">>
        \o ZeroPadded(i, 3) \o <<".", "m", "p", "4">>

OutputFile(dir, name) == [dir |-> dir, name |-> name]

\* `output_file.relative_to(out_path)` (line 315)
RelativeTo(file, base) ==
    [dir |-> SubSeq(file.dir, Len(base) + 1, Len(file.dir)), name |-> file.name]

\* a variant that forgets the clips it skips
RecordedUnlessSkipped(tally, key, value) ==
    IF key = "skipped" THEN tally ELSE [tally EXCEPT ![key] = Append(@, value)]

\* `results[key].append(value)`
Recorded(tally, key, value) == [tally EXCEPT ![key] = Append(@, value)]

\* a variant that stops at the first clip the extractor fails on
AfterSegmentStopping(returned) == IF returned THEN "loop" ELSE "done"

\* where extract_clips stands after extract_clip_segment returned: line 319
\* and the next iteration of the loop, whatever was returned
AfterSegment(returned) == "loop"

\* a variant that reads a malformed document as an empty one
EtParseLenient(file) ==
    [raised |-> "", tree |-> IF file.wellformed THEN file.tree
                             ELSE [producers |-> << >>, playlists |-> << >>,
                                   tractors |-> << >>]]

\* `ET.parse(project_path)` (line 65)
EtParse(file) ==
    IF file.wellformed THEN [raised |-> "", tree |-> file.tree]
    ELSE [raised |-> "ParseError",
          tree |-> [producers |-> << >>, playlists |-> << >>, tractors |-> << >>]]

\* the dict of lines 219 and 230
NothingDone == [success |-> << >>, failed |-> << >>]
\* the dict of line 268
Cancelled == [success |-> << >>, failed |-> << >>, cancelled |-> TRUE]
\* the dict of line 270
EmptyTally == [success |-> << >>, failed |-> << >>, skipped |-> << >>]

\* lines 215-223 and 65-77: the project is looked for and parsed, and the
\* frame rate is read from its profile
ParseProject ==
    /\ xpc = "start"
    /\ IF ~project.exists
       THEN /\ xresults' = NothingDone
            /\ xpc' = "returned"
            /\ UNCHANGED <<doc, pc, raised, fps>>
       ELSE LET parsed == EtParse(project)
            IN  /\ xpc' = "parsing"
                /\ UNCHANGED xresults
                /\ IF parsed.raised # ""
                   THEN /\ raised' = parsed.raised
                        /\ pc' = "raised"
                        /\ UNCHANGED <<doc, fps>>
                   ELSE /\ doc' = parsed.tree
                        /\ fps' = ProfileFps(profile)
                        /\ pc' = "producers"
                        /\ UNCHANGED raised
    /\ UNCHANGED <<producers, clips, origin, walked, ti, ki, li, ei, position>>
    /\ UNCHANGED <<profile, frames, timecode, tpc>>
    /\ UNCHANGED <<project, call, xi, dirs, outputs, trace, xraised>>
    /\ UNCHANGED <<catalogVars, exceptExtract>>

\* the exception of parse_kdenlive_project leaves extract_clips, which
\* catches nothing
ParseRaised ==
    /\ xpc = "parsing"
    /\ pc = "raised"
    /\ xraised' = raised
    /\ xpc' = "raised"
    /\ UNCHANGED <<project, call, xi, xresults, dirs, outputs, trace>>
    /\ UNCHANGED <<walkerVars, catalogVars, timecodeVars, exceptExtract>>

\* lines 225-259: the clips are listed with their timecodes and the output
\* directory is made
ParseReturned ==
    /\ xpc = "parsing"
    /\ pc = "done"
    /\ IF clips = << >>
       THEN /\ xresults' = NothingDone
            /\ xpc' = "returned"
            /\ UNCHANGED <<dirs, xraised>>
       ELSE IF \E i \in DOMAIN clips :
                   \E t \in FramesToTimecode(clips[i].in_point, fps) : t.raised # ""
       THEN /\ xraised' = "ZeroDivisionError"
            /\ xpc' = "raised"
            /\ UNCHANGED <<xresults, dirs>>
       ELSE /\ dirs' = dirs \cup {OutPath}
            /\ xpc' = "confirm"
            /\ UNCHANGED <<xresults, xraised>>
    /\ UNCHANGED <<project, call, xi, outputs, trace>>
    /\ UNCHANGED <<walkerVars, catalogVars, timecodeVars, exceptExtract>>

\* lines 266-270
Confirm(answer) ==
    /\ xpc = "confirm"
    /\ IF answer
       THEN xresults' = EmptyTally /\ xpc' = "loop"
       ELSE xresults' = Cancelled /\ xpc' = "returned"
    /\ UNCHANGED <<project, call, xi, dirs, outputs, trace, xraised>>
    /\ UNCHANGED <<walkerVars, catalogVars, timecodeVars, exceptExtract>>

\* ran: extract_clip_segment was called for the clip
Handled(i, how, ran) == [clip |-> i, how |-> how, ran |-> ran]

\* one iteration of the loop of lines 281-319; category is what
\* prompt_for_category returns, outcome is what running ffmpeg comes to
ExtractClip(category, outcome) ==
    /\ xpc = "loop"
    /\ xi < Len(clips)
    /\ LET i == xi + 1
           clip == clips[i]
           prompted == call.interactive /\ call.categories # {}
           clip_out_dir == IF prompted /\ category # None
                           THEN CategoryDir(category[1]) ELSE OutPath
           output_name == OutputName(clip, i)
           output_file == OutputFile(clip_out_dir, output_name)
       IN  IF prompted /\ category = None
           THEN /\ xresults' = Recorded(xresults, "skipped", PathName(clip.source_path))
                /\ trace' = Append(trace, Handled(i, "no category", FALSE))
                /\ xi' = i
                /\ UNCHANGED <<xpc, dirs, outputs, xraised>>
           ELSE /\ dirs' = dirs \cup {clip_out_dir}
                /\ IF output_file \in outputs
                   THEN /\ xresults' = Recorded(xresults, "skipped", output_name)
                        /\ trace' = Append(trace, Handled(i, "output exists", FALSE))
                        /\ xi' = i
                        /\ UNCHANGED <<xpc, outputs, xraised>>
                   ELSE IF outcome = "OSError"
                   THEN /\ xraised' = "OSError"
                        /\ xpc' = "raised"
                        /\ trace' = Append(trace, Handled(i, "raised", TRUE))
                        /\ UNCHANGED <<xi, xresults, outputs>>
                   ELSE IF outcome = "written"
                   THEN /\ xresults' = Recorded(xresults, "success",
                                               RelativeTo(output_file, OutPath))
                        /\ outputs' = outputs \cup {output_file}
                        /\ trace' = Append(trace, Handled(i, "success", TRUE))
                        /\ xi' = i
                        /\ xpc' = AfterSegment(TRUE)
                        /\ UNCHANGED xraised
                   ELSE /\ xresults' = Recorded(xresults, "failed",
                                               PathName(clip.source_path))
                        /\ outputs' = IF outcome = "partial"
                                      THEN outputs \cup {output_file} ELSE outputs
                        /\ trace' = Append(trace, Handled(i, "failed", TRUE))
                        /\ xi' = i
                        /\ xpc' = AfterSegment(FALSE)
                        /\ UNCHANGED xraised
    /\ UNCHANGED <<project, call>>
    /\ UNCHANGED <<walkerVars, catalogVars, timecodeVars, exceptExtract>>

\* the loop has taken every clip: lines 321-329
ExtractReturn ==
    /\ xpc = "loop"
    /\ xi = Len(clips)
    /\ xpc' = "done"
    /\ UNCHANGED <<project, call, xi, xresults, dirs, outputs, trace, xraised>>
    /\ UNCHANGED <<walkerVars, catalogVars, timecodeVars, exceptExtract>>

ExtractIdle ==
    /\ project = [exists |-> FALSE, wellformed |-> FALSE,
                  tree |-> [producers |-> << >>, playlists |-> << >>, tractors |-> << >>]]
    /\ call = [interactive |-> FALSE, categories |-> {}]
    /\ xpc = "idle"
    /\ xi = 0
    /\ xresults = << >>
    /\ dirs = {}
    /\ outputs = {}
    /\ trace = << >>
    /\ xraised = ""

ProjectFile(exists, wellformed, tree) ==
    [exists |-> exists, wellformed |-> wellformed, tree |-> tree]

NoTree == [producers |-> << >>, playlists |-> << >>, tractors |-> << >>]

ClipFile == <<"/", "r", "/", "c", ".", "v", "1", ".", "m", "p", "4">>

\* a timeline of the clips the entries give, on one track
Timeline(entries) ==
    [producers |-> << Producer("p1", <<Prop("resource", Text(PathA))>>),
                      Producer("p2", <<Prop("resource", Text(PathB))>>),
                      Producer("p3", <<Prop("resource", Text(ClipFile))>>) >>,
     playlists |-> <<Playlist("playlist0", entries)>>,
     tractors |-> <<Tractor(<<Track("playlist0")>>)>>]

\* no file; a file that is not XML; timelines of no clip, of one, of three,
\* of three by the same source, and of an entry int() rejects after a clip
ProjectFiles ==
    { ProjectFile(FALSE, FALSE, NoTree),
      ProjectFile(TRUE, FALSE, NoTree),
      ProjectFile(TRUE, TRUE, NoTree),
      ProjectFile(TRUE, TRUE, Timeline(<<Entry("p3", Text(<<"5">>), Text(<<"9">>))>>)),
      ProjectFile(TRUE, TRUE, Timeline(<<Entry("p1", Text(<<"5">>), Text(<<"9">>)),
                                        Entry("p2", NoText, Text(<<"4">>)),
                                        Entry("p3", Text(<<"9">>), Text(<<"5">>))>>)),
      ProjectFile(TRUE, TRUE, Timeline(<<Entry("p1", Text(<<"5">>), Text(<<"9">>)),
                                        Entry("p1", Text(<<"5">>), Text(<<"9">>)),
                                        Entry("p1", NoText, NoText)>>)),
      ProjectFile(TRUE, TRUE, Timeline(<<Entry("p1", Text(<<"5">>), Text(<<"9">>)),
                                        Entry("p2", Text(<<"x">>), NoText)>>)) }

\* the profile of the project: none, and a frame rate of zero
ProjectProfiles == { NoProfile, ProfileOf(Text(<<"0">>), Text(<<"1">>)) }

Aerial == [type |-> <<"a", "e", "r", "i", "a", "l">>, sub |-> <<"o", "r", "b", "i", "t">>]

\* not interactive; interactive without categories; interactive with one
Calls ==
    { [interactive |-> FALSE, categories |-> {Aerial}],
      [interactive |-> TRUE, categories |-> {}],
      [interactive |-> TRUE, categories |-> {Aerial}] }

CategoryAnswers == {None, Some(Aerial)}

\* ffmpeg wrote the segment; it failed and left nothing; it failed and left
\* a file; it could not be started
Outcomes == {"written", "failed", "partial", "OSError"}

\* the output files an earlier run left: none, or the one of the second clip
LeftOutputs ==
    { {},
      {OutputFile(OutPath, <<"b", "_", "c", "l", "i", "p", "0", "0", "2", ".", "m", "p", "4">>)},
      {OutputFile(OutPath, <<"a", "_", "c", "l", "i", "p", "0", "0", "2", ".", "m", "p", "4">>),
       OutputFile(CategoryDir(Aerial),
                  <<"a", "_", "c", "l", "i", "p", "0", "0", "3", ".", "m", "p", "4">>)} }

ExtractNext ==
    \/ ParseProject
    \/ BuildProducers
    \/ TractorLoop
    \/ TrackLoop
    \/ PlaylistLoop
    \/ EntryLoop
    \/ ParseRaised
    \/ ParseReturned
    \/ \E answer \in BOOLEAN : Confirm(answer)
    \/ \E category \in CategoryAnswers : \E outcome \in Outcomes :
           ExtractClip(category, outcome)
    \/ ExtractReturn


-----------------------------------------------------------------------------
(* link_proxies_to_project (proxy.py, lines 178-225).  A file is its text  *)
(* and, for a project, the tree the text parses to: shutil.copy2 copies    *)
(* the file as it is, tree.write serialises the tree anew.                 *)

\* producer elements in a project of LinkedFiles
MaxLinked == 2

\* tree.write(path, encoding="unicode", xml_declaration=True)
TreeWrite(tree) == [text |-> "serialised", tree |-> tree]
Authored(tree) == [text |-> "authored", tree |-> tree]
\* a file that is no project: a proxy video, or text that is not XML
Opaque(text) == [text |-> text, tree |-> << >>]

\* Path.with_suffix(suffix)
WithSuffix(path, suffix) ==
    LET name == PathName(path)
    IN  SubSeq(path, 1, Len(path) - Len(name)) \o PathStem(path) \o suffix

\* `project_path.with_suffix(".kdenlive.bak")` (line 216)
BackupPath(project_path) ==
    WithSuffix(project_path,
               <<".", "k", "d", "e", "n", "l", "i", "v", "e", ".", "b", "a", "k">>)

\* `proxy_dir / f"{original_path.stem}.proxy.mp4"` (line 197)
ProxyPath(proxy_dir, original_path) ==
    proxy_dir \o <<"/">> \o PathStem(original_path)
        \o <<".", "p", "r", "o", "x", "y", ".", "m", "p", "4">>

\* index of the first property named "kdenlive:proxy", 0 when there is none
RECURSIVE FirstProxyProp(_, _)
FirstProxyProp(props, i) ==
    IF i > Len(props) THEN 0
    ELSE IF props[i].name = "kdenlive:proxy" THEN i
    ELSE FirstProxyProp(props, i + 1)

\* lines 201-211: the property is updated, or added at the end
WithProxy(producer, proxy_path) ==
    LET i == FirstProxyProp(producer.props, 1)
    IN  IF i = 0
        THEN [producer EXCEPT !.props = Append(@, Prop("kdenlive:proxy", Text(proxy_path)))]
        ELSE [producer EXCEPT !.props[i].text = Text(proxy_path)]

\* lines 194-212 for one producer: the properties found at the start of the
\* loop are taken in turn, from the k-th on; raised is the TypeError of
\* Path(None)
RECURSIVE LinkProducer(_, _, _, _, _)
LinkProducer(producer, found, k, files, proxy_dir) ==
    IF k > Len(found) THEN [producer |-> producer, updated |-> 0, raised |-> ""]
    ELSE IF found[k].name # "resource"
    THEN LinkProducer(producer, found, k + 1, files, proxy_dir)
    ELSE IF ~found[k].text.present
    THEN [producer |-> producer, updated |-> 0, raised |-> "TypeError"]
    ELSE LET proxy_path == ProxyPath(proxy_dir, PathOf(found[k].text.text))
         IN  IF proxy_path \in DOMAIN files
             THEN LET rest == LinkProducer(WithProxy(producer, proxy_path), found,
                                           k + 1, files, proxy_dir)
                  IN  [rest EXCEPT !.updated = @ + 1]
             ELSE LinkProducer(producer, found, k + 1, files, proxy_dir)

\* lines 192-212: the producers from the k-th on
RECURSIVE LinkProducers(_, _, _, _)
LinkProducers(tree, k, files, proxy_dir) ==
    IF k > Len(tree) THEN [tree |-> tree, updated |-> 0, raised |-> ""]
    ELSE LET one == LinkProducer(tree[k], tree[k].props, 1, files, proxy_dir)
         IN  IF one.raised # ""
             THEN [tree |-> [tree EXCEPT ![k] = one.producer],
                   updated |-> one.updated, raised |-> one.raised]
             ELSE LET rest == LinkProducers([tree EXCEPT ![k] = one.producer], k + 1,
                                            files, proxy_dir)
                  IN  [rest EXCEPT !.updated = @ + one.updated]

\* a variant that overwrites the project without a backup
AfterProducersUnsaved(count) == IF count > 0 THEN "write" ELSE "return"

\* `if updated > 0` (line 214)
AfterProducers(count) == IF count > 0 THEN "backup" ELSE "return"

\* lines 186-187
LinkParse ==
    /\ ppc = "parse"
    /\ IF link.project_path \in DOMAIN fs /\ fs[link.project_path].text = "authored"
       THEN /\ ptree' = fs[link.project_path].tree
            /\ ppc' = "producers"
            /\ UNCHANGED praised
       ELSE /\ praised' = IF link.project_path \in DOMAIN fs THEN "ParseError"
                          ELSE "FileNotFoundError"
            /\ ppc' = "raised"
            /\ UNCHANGED ptree
    /\ UNCHANGED <<fs, link, updated>>
    /\ UNCHANGED <<walkerVars, catalogVars, exceptProxy>>

\* lines 189-212
LinkLoop ==
    /\ ppc = "producers"
    /\ LET linked == LinkProducers(ptree, 1, fs, link.proxy_dir)
       IN  /\ ptree' = linked.tree
           /\ updated' = linked.updated
           /\ IF linked.raised # ""
              THEN praised' = linked.raised /\ ppc' = "raised"
              ELSE ppc' = AfterProducers(linked.updated) /\ UNCHANGED praised
    /\ UNCHANGED <<fs, link>>
    /\ UNCHANGED <<walkerVars, catalogVars, exceptProxy>>

\* lines 216-218: shutil.copy2, which may fail
LinkBackup(copied) ==
    /\ ppc = "backup"
    /\ IF copied
       THEN /\ fs' = [path \in DOMAIN fs \cup {BackupPath(link.project_path)} |->
                         IF path = BackupPath(link.project_path)
                         THEN fs[link.project_path] ELSE fs[path]]
            /\ ppc' = "write"
            /\ UNCHANGED praised
       ELSE /\ praised' = "OSError"
            /\ ppc' = "raised"
            /\ UNCHANGED fs
    /\ UNCHANGED <<link, ptree, updated>>
    /\ UNCHANGED <<walkerVars, catalogVars, exceptProxy>>

\* line 221
LinkWrite ==
    /\ ppc = "write"
    /\ fs' = [fs EXCEPT ![link.project_path] = TreeWrite(ptree)]
    /\ ppc' = "return"
    /\ UNCHANGED <<link, ptree, updated, praised>>
    /\ UNCHANGED <<walkerVars, catalogVars, exceptProxy>>

\* line 225
LinkReturn ==
    /\ ppc = "return"
    /\ ppc' = "returned"
    /\ UNCHANGED <<fs, link, ptree, updated, praised>>
    /\ UNCHANGED <<walkerVars, catalogVars, exceptProxy>>

ProxyIdle ==
    /\ fs = << >>
    /\ link = << >>
    /\ ptree = << >>
    /\ updated = 0
    /\ ppc = "idle"
    /\ praised = ""

ProjectPath == <<"/", "w", "/", "p", ".", "k", "d", "e", "n", "l", "i", "v", "e">>
ProxyDir == <<"/", "w", "/", "x">>

LinkCalls == { [project_path |-> ProjectPath, proxy_dir |-> ProxyDir] }

\* a producer of a file with and without an earlier proxy property, of a
\* second file, of a placeholder, without a resource, with an empty resource
\* element, and with two resources
LinkedProducers ==
    { Producer("p1", <<Prop("resource", Text(PathA))>>),
      Producer("p1", <<Prop("kdenlive:proxy", Text(<<"-">>)),
                       Prop("resource", Text(PathA))>>),
      Producer("p2", <<Prop("resource", Text(ClipFile))>>),
      Producer("p3", <<Prop("resource", Text(Black))>>),
      Producer("p4", <<Prop("length", Text(<<"9">>))>>),
      Producer("p5", <<Prop("resource", NoText)>>),
      Producer("p6", <<Prop("resource", Text(PathA)), Prop("resource", Text(PathB))>>) }

\* the proxies that exist: of a and c.v1, of a and b, or none
ProxySets ==
    { {ProxyPath(ProxyDir, PathA), ProxyPath(ProxyDir, ClipFile)},
      {ProxyPath(ProxyDir, PathA), ProxyPath(ProxyDir, PathB)},
      {} }

\* a project of at most MaxLinked producers (or a file that is not XML, or
\* none), the proxies, and the backup an earlier run left or none
LinkedFiles ==
    { [path \in (proxies \cup DOMAIN projects) \cup DOMAIN backups |->
          IF path \in proxies THEN Opaque("video")
          ELSE IF path \in DOMAIN projects THEN projects[path]
          ELSE backups[path]] :
        proxies \in ProxySets,
        projects \in {[x \in {ProjectPath} |-> Authored(tree)] :
                          tree \in SeqsUpTo(LinkedProducers, MaxLinked)}
                     \cup {[x \in {ProjectPath} |-> Opaque("not XML")], << >>},
        backups \in {<< >>, [x \in {BackupPath(ProjectPath)} |-> Opaque("older backup")]} }

ProxyNext ==
    \/ LinkParse
    \/ LinkLoop
    \/ \E copied \in BOOLEAN : LinkBackup(copied)
    \/ LinkWrite
    \/ LinkReturn


-----------------------------------------------------------------------------
(* ingest_footage (ingest.py, lines 70-206), called without a config: the  *)
(* destination is Raw_HoverAir_Vids, the naming pattern the default one,   *)
(* no dated folders.  A file is the sequence of its bytes.  The source is  *)
(* a directory whose video files lie at its top level.                     *)

\* files on the card
MaxCard == 2

chunk_size == 8192
Md5Modulus == 65521

\* md5.update(chunk): the digest is modelled by a checksum that tells apart
\* all the contents of Cards, RawDirs and Transferred
RECURSIVE Md5Update(_, _)
Md5Update(md5, chunk) ==
    IF chunk = << >> THEN md5
    ELSE Md5Update((md5 * 31 + Head(chunk) + 1) % Md5Modulus, Tail(chunk))

\* the loop of lines 27-29 from the given offset on
RECURSIVE ReadChunks(_, _, _)
ReadChunks(md5, content, offset) ==
    IF offset >= Len(content) THEN md5
    ELSE ReadChunks(Md5Update(md5, SubSeq(content, offset + 1,
                                          Min(offset + chunk_size, Len(content)))),
                    content, offset + chunk_size)

\* calculate_checksum (lines 24-30)
CalculateChecksum(content) == ReadChunks(7, content, 0)

HoverAirPrefix ==
    <<"H", "O", "V", "E", "R", "_", "X", "1", "P", "R", "O", "M", "A", "X", "_">>

\* HOVERAIR_PATTERN matches in name at offset k
HoverAirAt(name, k) ==
    /\ k + Len(HoverAirPrefix) + 4 <= Len(name)
    /\ SubSeq(name, k + 1, k + Len(HoverAirPrefix)) = HoverAirPrefix
    /\ \A j \in 1..4 : IsDigit(name[k + Len(HoverAirPrefix) + j])

\* HOVERAIR_PATTERN.search(name): None, or int(group(1)) of the first match
HoverAirSearch(name) ==
    LET at == {k \in 0..Len(name) : HoverAirAt(name, k)}
    IN  IF at = {} THEN << >>
        ELSE LET k == CHOOSE m \in at : \A o \in at : m <= o
                 d(j) == DigitValue(name[k + Len(HoverAirPrefix) + j])
             IN  << d(1) * 1000 + d(2) * 100 + d(3) * 10 + d(4) >>

EndsWith(name, suffix) ==
    /\ Len(suffix) <= Len(name)
    /\ SubSeq(name, Len(name) - Len(suffix) + 1, Len(name)) = suffix

\* get_next_sequence_number (lines 33-43)
GetNextSequenceNumber(dir) ==
    LET globbed == {name \in DOMAIN dir :
                       /\ Len(name) >= Len(HoverAirPrefix) + 4
                       /\ SubSeq(name, 1, Len(HoverAirPrefix)) = HoverAirPrefix
                       /\ EndsWith(name, <<".", "m", "p", "4">>)}
        seqs == {HoverAirSearch(name)[1] :
                    name \in {g \in globbed : HoverAirSearch(g) # << >>}}
    IN  (IF seqs = {} THEN 0 ELSE CHOOSE m \in seqs : \A o \in seqs : o <= m) + 1

Extensions ==
    { <<".", "m", "p", "4">>, <<".", "m", "o", "v">>, <<".", "m", "k", "v">>,
      <<".", "a", "v", "i">>, <<".", "m", "x", "f">> }

\* Path.suffix: the name from its last dot on, unless that dot leads or ends it
PathSuffix(name) == SubSeq(name, Len(PathStem(name)) + 1, Len(name))

\* sorted(...) of distinct names
RECURSIVE SortedNames(_)
SortedNames(names) ==
    IF names = {} THEN << >>
    ELSE LET least == CHOOSE n \in names : \A o \in names \ {n} : StrLess(n, o)
         IN  <<least>> \o SortedNames(names \ {least})

\* find_video_files (lines 46-67) of a directory without a DCIM folder: the
\* names that end in an extension, or in its upper case
FindVideoFiles(dir) ==
    SortedNames({name \in DOMAIN dir :
                    \E ext \in Extensions :
                        \/ EndsWith(name, ext)
                        \/ EndsWith(name, [i \in DOMAIN ext |-> UpperChar(ext[i])])})

\* lines 145-150 with the default naming pattern: the name and the next seq
DestName(name, seq) ==
    IF HoverAirSearch(name) # << >>
    THEN [name |-> name, next_seq |-> seq]
    ELSE [name |-> HoverAirPrefix \o ZeroPadded(seq, 4) \o Lower(PathSuffix(name)),
          next_seq |-> seq + 1]

\* what shutil.copy2 or shutil.move leaves at the destination: the bytes of
\* the source, or, on a medium that fails without an error, fewer bytes or
\* other bytes
Transferred(content, outcome) ==
    IF outcome = "faithful" THEN content
    ELSE IF outcome = "truncated" THEN SubSeq(content, 1, Len(content) - 1)
    ELSE [content EXCEPT ![1] = (@ + 1) % 256]

Without(dir, name) == [n \in DOMAIN dir \ {name} |-> dir[n]]
With(dir, name, content) ==
    [n \in DOMAIN dir \cup {name} |-> IF n = name THEN content ELSE dir[n]]

\* lines 77-100
IngestStart ==
    /\ gpc = "start"
    /\ IF ~card.exists
       THEN /\ gresults' = [success |-> << >>, failed |-> << >>]
            /\ gpc' = "returned"
            /\ UNCHANGED gfiles
       ELSE /\ gfiles' = FindVideoFiles(card.files)
            /\ IF gfiles' = << >>
               THEN gresults' = [success |-> << >>, failed |-> << >>] /\ gpc' = "returned"
               ELSE gpc' = "confirm" /\ UNCHANGED gresults
    /\ UNCHANGED <<card, raw, ingest, gi, next_seq, dest_name, src_checksum, footage>>
    /\ UNCHANGED <<walkerVars, catalogVars, exceptIngest>>

\* lines 122-129
IngestConfirm(answer) ==
    /\ gpc = "confirm"
    /\ IF answer
       THEN /\ gresults' = [success |-> << >>, failed |-> << >>, skipped |-> << >>]
            /\ next_seq' = GetNextSequenceNumber(raw)
            /\ gi' = 1
            /\ gpc' = "loop"
       ELSE /\ gresults' = [success |-> << >>, failed |-> << >>, cancelled |-> TRUE]
            /\ gpc' = "returned"
            /\ UNCHANGED <<next_seq, gi>>
    /\ UNCHANGED <<card, raw, ingest, gfiles, dest_name, src_checksum, footage>>
    /\ UNCHANGED <<walkerVars, catalogVars, exceptIngest>>

\* lines 140-166: the destination name; an existing destination is skipped
IngestName ==
    /\ gpc = "loop"
    /\ gi <= Len(gfiles)
    /\ LET named == DestName(gfiles[gi], next_seq)
       IN  /\ dest_name' = named.name
           /\ next_seq' = named.next_seq
           /\ IF named.name \in DOMAIN raw
              THEN /\ gresults' = [gresults EXCEPT !.skipped = Append(@, gfiles[gi])]
                   /\ gi' = gi + 1
                   /\ UNCHANGED gpc
              ELSE /\ gpc' = "transfer"
                   /\ UNCHANGED <<gresults, gi>>
    /\ UNCHANGED <<card, raw, ingest, gfiles, src_checksum, footage>>
    /\ UNCHANGED <<walkerVars, catalogVars, exceptIngest>>

\* lines 168-178 and 190-196: the source checksum, then shutil.move or
\* shutil.copy2.  The outcome "raised" is an exception that leaves both
\* directories as they are, "partial" one that leaves a part of the copy.
IngestTransfer(outcome) ==
    /\ gpc = "transfer"
    /\ LET src_file == gfiles[gi]
           content == card.files[src_file]
       IN  IF outcome \in {"raised", "partial"}
           THEN /\ raw' = IF outcome = "partial"
                          THEN With(raw, dest_name, Transferred(content, "truncated"))
                          ELSE raw
                /\ gresults' = [gresults EXCEPT !.failed = Append(@, src_file)]
                /\ src_checksum' = IF ingest.verify THEN <<CalculateChecksum(content)>>
                                   ELSE << >>
                /\ gi' = gi + 1
                /\ gpc' = "loop"
                /\ UNCHANGED card
           ELSE /\ src_checksum' = IF ingest.verify THEN <<CalculateChecksum(content)>>
                                   ELSE << >>
                /\ raw' = With(raw, dest_name, Transferred(content, outcome))
                /\ card' = IF ingest.move
                           THEN [card EXCEPT !.files = Without(@, src_file)]
                           ELSE card
                /\ IF ingest.verify
                   THEN gpc' = "verify" /\ UNCHANGED <<gresults, gi>>
                   ELSE /\ gresults' = [gresults EXCEPT !.success = Append(@, dest_name)]
                        /\ gi' = gi + 1
                        /\ gpc' = "loop"
    /\ UNCHANGED <<ingest, gfiles, next_seq, dest_name, footage>>
    /\ UNCHANGED <<walkerVars, catalogVars, exceptIngest>>

\* lines 181-190 and 196
IngestVerify ==
    /\ gpc = "verify"
    /\ LET dest_checksum == CalculateChecksum(raw[dest_name])
       IN  IF src_checksum[1] # dest_checksum
           THEN /\ raw' = Without(raw, dest_name)
                /\ gresults' = [gresults EXCEPT !.failed = Append(@, gfiles[gi])]
           ELSE /\ gresults' = [gresults EXCEPT !.success = Append(@, dest_name)]
                /\ UNCHANGED raw
    /\ gi' = gi + 1
    /\ gpc' = "loop"
    /\ UNCHANGED <<card, ingest, gfiles, next_seq, dest_name, src_checksum, footage>>
    /\ UNCHANGED <<walkerVars, catalogVars, exceptIngest>>

\* lines 198-206
IngestReturn ==
    /\ gpc = "loop"
    /\ gi > Len(gfiles)
    /\ gpc' = "returned"
    /\ UNCHANGED <<card, raw, ingest, gfiles, gi, next_seq, dest_name, src_checksum,
                   gresults, footage>>
    /\ UNCHANGED <<walkerVars, catalogVars, exceptIngest>>

IngestIdle ==
    /\ card = << >>
    /\ raw = << >>
    /\ ingest = << >>
    /\ gfiles = << >>
    /\ gi = 0
    /\ next_seq = 0
    /\ dest_name = << >>
    /\ src_checksum = << >>
    /\ gresults = << >>
    /\ gpc = "idle"
    /\ footage = << >>

Hover1 == HoverAirPrefix \o <<"0", "0", "0", "1", ".", "m", "p", "4">>
Hover2Mov == HoverAirPrefix \o <<"0", "0", "0", "2", ".", "m", "o", "v">>

\* a drone clip, a camera clip with an upper-case extension, a second
\* camera clip, and a file that is no video
CardFiles ==
    [name \in { Hover1, <<"a", ".", "M", "O", "V">>, <<"b", ".", "m", "p", "4">>,
                <<"n", ".", "t", "x", "t">> } |->
        IF name = Hover1 THEN <<1, 2>>
        ELSE IF name[1] = "a" THEN <<3>>
        ELSE IF name[1] = "b" THEN <<4, 5, 6>>
        ELSE <<7>>]

\* a missing source, or a card with at most MaxCard of the files
Cards ==
    { [exists |-> FALSE, files |-> << >>] } \cup
    { [exists |-> TRUE, files |-> [name \in names |-> CardFiles[name]]] :
        names \in {held \in SUBSET DOMAIN CardFiles : Cardinality(held) <= MaxCard} }

\* the destination before the run: empty, holding an earlier drone clip, or
\* holding that clip and the name the next renamed clip would get
RawDirs ==
    { << >>,
      [name \in {Hover1} |-> <<8, 9>>],
      [name \in {Hover1, Hover2Mov} |-> <<8, 9>>] }

Transfers == {"faithful", "truncated", "altered", "raised", "partial"}

IngestNext ==
    \/ IngestStart
    \/ \E answer \in BOOLEAN : IngestConfirm(answer)
    \/ IngestName
    \/ \E outcome \in Transfers : IngestTransfer(outcome)
    \/ IngestVerify
    \/ IngestReturn

\* no tool other than the walker and the catalog operations runs
ToolsIdle ==
    /\ TimecodeIdle /\ BrowseIdle /\ RaceIdle /\ ExtractIdle /\ ProxyIdle
    /\ IngestIdle

-----------------------------------------------------------------------------
(* Specifications.                                                         *)

\* the walker over every checked document; the catalog is not touched
Init == IsDocument(doc) /\ WalkerIdle /\ CatalogIdle /\ ToolsIdle

Next == WalkerNext

Spec == Init /\ [][Next]_vars

\* the catalog operations; no project is parsed
CatalogInit ==
    /\ doc = [producers |-> << >>, playlists |-> << >>, tractors |-> << >>]
    /\ WalkerIdle
    /\ CatalogIdle
    /\ ToolsIdle

CatalogSpec == CatalogInit /\ [][CatalogNext]_vars

\* the operations on a catalog file that earlier runs left
StoreInit ==
    /\ doc = [producers |-> << >>, playlists |-> << >>, tractors |-> << >>]
    /\ WalkerIdle
    /\ catalog \in StoredCatalogs
    /\ last = NoOperation
    /\ ToolsIdle

StoreSpec == StoreInit /\ [][StoreNext]_vars

EmptyDocument == [producers |-> << >>, playlists |-> << >>, tractors |-> << >>]

\* the timecodes of every checked frame count under every checked profile
TimecodeInit ==
    /\ doc = EmptyDocument
    /\ WalkerIdle
    /\ CatalogIdle
    /\ BrowseIdle /\ RaceIdle /\ ExtractIdle /\ ProxyIdle /\ IngestIdle
    /\ profile \in Profiles
    /\ frames \in Frames
    /\ fps = DefaultFps
    /\ timecode = NoTimecode
    /\ tpc = "profile"

TimecodeSpec == TimecodeInit /\ [][TimecodeNext]_vars

\* one run of browse_catalog over a catalog file that earlier runs left
BrowseInit ==
    /\ doc = EmptyDocument
    /\ WalkerIdle
    /\ catalog \in BrowsedFiles
    /\ last = NoOperation
    /\ TimecodeIdle /\ RaceIdle /\ ExtractIdle /\ ProxyIdle /\ IngestIdle
    /\ listed = << >>
    /\ page = 0
    /\ total_pages = 0
    /\ page_clips = << >>
    /\ cmd = << >>
    /\ commands = 0
    /\ bpc = "load"

BrowseSpec == BrowseInit /\ [][BrowseNext]_vars

\* two invocations against one catalog file that earlier runs left
RaceInit ==
    /\ doc = EmptyDocument
    /\ WalkerIdle
    /\ catalog \in StoredCatalogs
    /\ last = NoOperation
    /\ TimecodeIdle /\ BrowseIdle /\ ExtractIdle /\ ProxyIdle /\ IngestIdle
    /\ job \in [Invocations -> RaceJobs]
    /\ rpc = [p \in Invocations |-> "start"]
    /\ memory = [p \in Invocations |-> NoMemory]
    /\ stored = catalog
    /\ events = << >>

RaceSpec == RaceInit /\ [][RaceNext]_vars

\* one run of extract_clips, the project it is handed not yet parsed
ExtractInit ==
    /\ doc = EmptyDocument
    /\ pc = "unparsed"
    /\ producers = << >>
    /\ clips = << >>
    /\ origin = << >>
    /\ walked = << >>
    /\ ti = 0 /\ ki = 0 /\ li = 0 /\ ei = 0
    /\ position = 0
    /\ raised = ""
    /\ CatalogIdle
    /\ BrowseIdle /\ RaceIdle /\ ProxyIdle /\ IngestIdle
    /\ profile \in ProjectProfiles
    /\ frames = 0
    /\ fps = DefaultFps
    /\ timecode = NoTimecode
    /\ tpc = "idle"
    /\ project \in ProjectFiles
    /\ call \in Calls
    /\ xpc = "start"
    /\ xi = 0
    /\ xresults = << >>
    /\ dirs = {}
    /\ outputs \in LeftOutputs
    /\ trace = << >>
    /\ xraised = ""

ExtractSpec == ExtractInit /\ [][ExtractNext]_vars

\* one run of link_proxies_to_project over the files of LinkedFiles
ProxyInit ==
    /\ doc = EmptyDocument
    /\ WalkerIdle
    /\ CatalogIdle
    /\ TimecodeIdle /\ BrowseIdle /\ RaceIdle /\ ExtractIdle /\ IngestIdle
    /\ link \in LinkCalls
    /\ fs \in LinkedFiles
    /\ ptree = << >>
    /\ updated = 0
    /\ ppc = "parse"
    /\ praised = ""

ProxySpec == ProxyInit /\ [][ProxyNext]_vars

\* one run of ingest_footage, in copy or move mode, with or without
\* verification, from a card of Cards into a directory of RawDirs
IngestInit ==
    /\ doc = EmptyDocument
    /\ WalkerIdle
    /\ CatalogIdle
    /\ TimecodeIdle /\ BrowseIdle /\ RaceIdle /\ ExtractIdle /\ ProxyIdle
    /\ card \in Cards
    /\ raw \in RawDirs
    /\ ingest \in [move : BOOLEAN, verify : BOOLEAN]
    /\ gfiles = << >>
    /\ gi = 0
    /\ next_seq = 0
    /\ dest_name = << >>
    /\ src_checksum = << >>
    /\ gresults = << >>
    /\ gpc = "start"
    /\ footage = card.files

IngestSpec == IngestInit /\ [][IngestNext]_vars

-----------------------------------------------------------------------------
(* Properties of the catalog across extract_metadata.                      *)

\* an entry that carries an annotation value the user has set
Annotated(e) ==
    /\ UserFields \subseteq DOMAIN e
    /\ \E f \in UserFields : e[f] # AnnotationDefaults[f]

\* some file of the run has the entry's filename
Covers(files, e) == \E i \in DOMAIN files : files[i].name = e.filename

\* C1: an annotated entry whose file is covered by an extract_metadata run
\* that auto-saves to the catalog keeps its annotation values in the saved
\* catalog.
AnnotationsSurviveReextraction ==
    [][\A files \in SeqsUpTo(Files, MaxFiles) : \A probes \in [DOMAIN files -> Probes] :
         ExtractMetadata(files, probes, "config") =>
            \A k \in DOMAIN LoadCatalog(catalog) :
               LET e == LoadCatalog(catalog)[k]
               IN  (Annotated(e) /\ Covers(files, e)) =>
                      \E m \in DOMAIN catalog'.entries :
                         /\ catalog'.entries[m].filename = e.filename
                         /\ Annotated(catalog'.entries[m])
                         /\ \A f \in UserFields : catalog'.entries[m][f] = e[f]]_vars

\* C2: an entry whose file an auto-saving extract_metadata run does not
\* cover is still in the catalog, unchanged, after the run.
NoEvictionOnReextract ==
    [][\A files \in SeqsUpTo(Files, MaxFiles) : \A probes \in [DOMAIN files -> Probes] :
         ExtractMetadata(files, probes, "config") =>
            \A k \in DOMAIN LoadCatalog(catalog) :
               LET e == LoadCatalog(catalog)[k]
               IN  ~Covers(files, e) =>
                      \E m \in DOMAIN catalog'.entries : catalog'.entries[m] = e]_vars

-----------------------------------------------------------------------------
(* Properties of the walk.                                                 *)

\* the entry element a clip or a finished loop body belongs to
EntryAt(w) == doc.playlists[w.playlist].entries[w.entry]

InOf(e) == EntryFrame(e.in).val
OutOf(e) == EntryFrame(e.out).val

\* the sum of out - in + 1 over the first n entries of a playlist
RECURSIVE FramesBefore(_, _)
FramesBefore(entries, n) ==
    IF n = 0 THEN 0
    ELSE FramesBefore(entries, n - 1) + (OutOf(entries[n]) - InOf(entries[n]) + 1)

Emitted(w) == \E i \in DOMAIN origin : origin[i] = w

\* every entry of every playlist a track reference matches, by loop indices
EntriesToWalk ==
    UNION { UNION { UNION {
        { [tractor |-> t, track |-> k, playlist |-> l, entry |-> n] :
            n \in DOMAIN doc.playlists[l].entries } :
        l \in { m \in DOMAIN doc.playlists :
                  PlaylistMatches(doc.playlists[m], doc.tractors[t].tracks[k].producer) } } :
        k \in DOMAIN doc.tractors[t].tracks } :
        t \in DOMAIN doc.tractors }

SameWalk(a, b) ==
    a.tractor = b.tractor /\ a.track = b.track /\ a.playlist = b.playlist

\* C3: the position of a clip emitted from the Nth entry of a playlist is the
\* sum of out - in + 1 over the N-1 entries before it in that playlist,
\* unresolved ones included, whatever was walked before the playlist.
PrefixSumPosition ==
    \A i \in DOMAIN clips :
        /\ doc.playlists[origin[i].playlist].id = clips[i].track
        /\ clips[i].position =
              FramesBefore(doc.playlists[origin[i].playlist].entries, origin[i].entry - 1)

\* a clip of the second track that follows an unresolved entry of its
\* playlist, after the first track emitted clips of its own
PrefixSumPositionWitness ==
    \E i, j \in DOMAIN clips :
        /\ origin[j].track = 1 /\ origin[i].track = 2
        /\ origin[i].entry >= 2
        /\ ~Resolves(producers, doc.playlists[origin[i].playlist].entries[1].producer)
        /\ clips[j].duration > 1
        /\ clips[i].position > 0

\* C4 as stated: for every track, the positions of its clips in emission
\* order never decrease, whatever the document.
PositionsNonDecreasing ==
    \A i, j \in DOMAIN clips :
        (i < j /\ clips[i].track = clips[j].track) =>
            clips[i].position <= clips[j].position

\* C4 amended: within one walk of a playlist the positions of the clips never
\* decrease as long as no entry before the later clip has out < in - 1.
PositionsNonDecreasingWithoutInversion ==
    \A i, j \in DOMAIN clips :
        ( /\ i < j
          /\ SameWalk(origin[i], origin[j])
          /\ \A k \in 1..(origin[j].entry - 1) :
                LET e == doc.playlists[origin[j].playlist].entries[k]
                IN  OutOf(e) >= InOf(e) - 1 ) =>
            clips[i].position <= clips[j].position

\* three clips of one walk over entries without an inverted range
PositionsNonDecreasingWitness ==
    \E i, j, k \in DOMAIN clips :
        /\ i < j /\ j < k
        /\ SameWalk(origin[i], origin[j]) /\ SameWalk(origin[j], origin[k])
        /\ \A n \in 1..(origin[k].entry - 1) :
              LET e == doc.playlists[origin[k].playlist].entries[n]
              IN  OutOf(e) >= InOf(e) - 1
        /\ clips[i].position < clips[j].position
        /\ clips[j].position < clips[k].position

\* C5: every clip has duration = out_point - in_point + 1, and an entry with
\* out < in - 1 whose producer resolves is emitted with its in and out points
\* and a negative duration: as soon as its loop body has run, and for every
\* entry of every matched playlist once the parse has finished.
DurationPassThrough ==
    /\ \A i \in DOMAIN clips :
          clips[i].duration = clips[i].out_point - clips[i].in_point + 1
    /\ \A n \in DOMAIN walked :
          LET e == EntryAt(walked[n])
          IN  (OutOf(e) < InOf(e) - 1 /\ e.producer \in DOMAIN producers) =>
                 \E i \in DOMAIN clips :
                    /\ origin[i] = walked[n]
                    /\ clips[i].in_point = InOf(e)
                    /\ clips[i].out_point = OutOf(e)
                    /\ clips[i].duration < 0
    /\ pc = "done" =>
          \A w \in EntriesToWalk :
              LET e == EntryAt(w)
              IN  (OutOf(e) < InOf(e) - 1 /\ e.producer \in DOMAIN producers) =>
                     \E i \in DOMAIN clips : origin[i] = w /\ clips[i].duration < 0

\* a clip emitted from an entry with out < in - 1
DurationPassThroughWitness ==
    \E i \in DOMAIN clips :
        /\ clips[i].out_point < clips[i].in_point - 1
        /\ clips[i].duration < 0

\* C6 as stated: no emitted clip has a negative duration.
DurationNeverNegative == \A i \in DOMAIN clips : clips[i].duration >= 0

\* C6 amended: a clip's duration is zero or more exactly when its entry has
\* out >= in - 1, and negative when out < in - 1.
DurationSignFollowsRange ==
    \A i \in DOMAIN clips :
        LET e == EntryAt(origin[i])
        IN  (clips[i].duration >= 0) <=> (OutOf(e) >= InOf(e) - 1)

\* a document that emitted a clip of each sign
DurationSignWitness ==
    \E i, j \in DOMAIN clips :
        /\ clips[i].duration >= 0 /\ OutOf(EntryAt(origin[i])) >= InOf(EntryAt(origin[i])) - 1
        /\ clips[j].duration < 0 /\ OutOf(EntryAt(origin[j])) < InOf(EntryAt(origin[j])) - 1

\* a producer element that is a black placeholder or has no resource property
PlaceholderOrResourceless(p) ==
    LET r == FirstResource(p.props, 1)
    IN  r = 0 \/ (p.props[r].text.present /\ StartsWith(p.props[r].text.text, Black))

\* C7: an entry the walker visits emits a clip exactly when its producer id
\* is a key of the producer map; a clip's source path is a path and is the
\* map's value for its producer id; an entry whose producer is a placeholder
\* or has no resource emits nothing; a finished parse has visited every
\* entry of every playlist a track reference matches.
UnresolvedEntriesDropped ==
    /\ \A n \in DOMAIN walked :
          Emitted(walked[n]) <=> EntryAt(walked[n]).producer \in DOMAIN producers
    /\ \A i \in DOMAIN clips :
          /\ clips[i].producer_id = EntryAt(origin[i]).producer
          /\ clips[i].producer_id \in DOMAIN producers
          /\ clips[i].source_path = producers[clips[i].producer_id]
          /\ clips[i].source_path # << >>
    /\ \A n \in DOMAIN walked :
          LET ref == EntryAt(walked[n]).producer
              named == {x \in DOMAIN doc.producers : doc.producers[x].id = ref}
          IN  (named # {} /\ \A x \in named : PlaceholderOrResourceless(doc.producers[x]))
                 => ~Emitted(walked[n])
    /\ pc = "done" =>
          \A w \in EntriesToWalk :
              Emitted(w) <=> EntryAt(w).producer \in DOMAIN producers

\* a walk that dropped an entry of a black producer and emitted a clip
UnresolvedEntriesDroppedWitness ==
    /\ clips # << >>
    /\ \E n \in DOMAIN walked :
          /\ ~Emitted(walked[n])
          /\ \E x \in DOMAIN doc.producers :
                /\ doc.producers[x].id = EntryAt(walked[n]).producer
                /\ FirstResource(doc.producers[x].props, 1) # 0
                /\ PlaceholderOrResourceless(doc.producers[x])

\* the frame C8 expects of an attribute: 0 when absent or not an integer
FrameOrZero(attr) ==
    IF attr.present /\ PyInt(attr.text).ok THEN PyInt(attr.text).val ELSE 0

\* C8: an absent or unparsable in or out attribute counts as 0 and the parse
\* goes on: no error is raised.
EntryFrameDefaults ==
    /\ raised = ""
    /\ \A i \in DOMAIN clips :
          /\ clips[i].in_point = FrameOrZero(EntryAt(origin[i]).in)
          /\ clips[i].out_point = FrameOrZero(EntryAt(origin[i]).out)

\* C9: only the tracks of the first tractor contribute clips.
OnlyFirstTractorWalked == \A i \in DOMAIN origin : origin[i].tractor = 1

\* a track reference whose producer is the id of no playlist
Dangling(d, t, k) ==
    \A l \in DOMAIN d.playlists :
        ~PlaylistMatches(d.playlists[l], d.tractors[t].tracks[k].producer)

\* the document without the kth track reference of its tth tractor
WithoutTrack(d, t, k) ==
    [d EXCEPT !.tractors[t].tracks =
        SubSeq(@, 1, k - 1) \o SubSeq(@, k + 1, Len(@))]

\* C10: a track reference that matches no playlist contributes no clip and
\* no error: the parse ends with the clips and the outcome of the document
\* without that track reference.
DanglingTrackIgnored ==
    /\ \A i \in DOMAIN clips :
          \E l \in DOMAIN doc.playlists : doc.playlists[l].id = clips[i].track
    /\ pc \in {"done", "raised"} =>
          \A t \in DOMAIN doc.tractors : \A k \in DOMAIN doc.tractors[t].tracks :
              Dangling(doc, t, k) =>
                 LET without == WalkOfDocument(WithoutTrack(doc, t, k))
                 IN  clips = without.clips /\ raised = without.raised

\* a finished parse with a dangling track reference between two tracks that
\* emitted clips
DanglingTrackIgnoredWitness ==
    /\ pc = "done"
    /\ \E t \in DOMAIN doc.tractors : \E k \in DOMAIN doc.tractors[t].tracks :
          /\ Dangling(doc, t, k)
          /\ \E i, j \in DOMAIN origin :
                /\ origin[i].tractor = t /\ origin[i].track < k
                /\ origin[j].tractor = t /\ origin[j].track > k

-----------------------------------------------------------------------------
(* Properties of the producer map.                                         *)

\* the producer elements of the document that carry the id
ProducersNamed(id) == {x \in DOMAIN doc.producers : doc.producers[x].id = id}

\* the text of the earliest property named "resource" of a producer element
FirstResourceText(p) ==
    LET named == {i \in DOMAIN p.props : p.props[i].name = "resource"}
    IN  IF named = {} THEN NoText
        ELSE p.props[CHOOSE i \in named : \A j \in named : i <= j].text

\* non-empty text that does not start with "black"
FileText(t) ==
    /\ t.present
    /\ Len(t.text) > 0
    /\ ~(Len(t.text) >= 5 /\ [i \in 1..5 |-> t.text[i]] = <<"b", "l", "a", "c", "k">>)

\* C11: once the producer map is built, an id is a key of the map exactly
\* when a producer element with that id has, as its first property named
\* "resource", non-empty text that does not start with "black"; the value is
\* the path of such a text, and for an element that alone carries its id, of
\* its own.  Later resource properties of an element do not count, and an
\* element without a resource property adds nothing.
ProducerResolution ==
    pc # "producers" =>
        /\ \A x \in DOMAIN doc.producers :
              LET p == doc.producers[x]
              IN  /\ FileText(FirstResourceText(p)) => p.id \in DOMAIN producers
                  /\ ProducersNamed(p.id) = {x} =>
                         /\ (p.id \in DOMAIN producers) <=> FileText(FirstResourceText(p))
                         /\ p.id \in DOMAIN producers =>
                                producers[p.id] = PathOf(FirstResourceText(p).text)
        /\ \A id \in DOMAIN producers :
              \E x \in ProducersNamed(id) :
                  /\ FileText(FirstResourceText(doc.producers[x]))
                  /\ producers[id] = PathOf(FirstResourceText(doc.producers[x]).text)

\* a map built from a producer whose placeholder resource is followed by a
\* file (left out) and one whose file resource is followed by a placeholder
\* (recorded)
ProducerResolutionWitness ==
    /\ pc # "producers"
    /\ \E x, y \in DOMAIN doc.producers :
          LET p == doc.producers[x]
              q == doc.producers[y]
          IN  /\ p.id # q.id
              /\ Len(p.props) = 2 /\ Len(q.props) = 2
              /\ ~FileText(p.props[1].text) /\ FileText(p.props[2].text)
              /\ FileText(q.props[1].text) /\ ~FileText(q.props[2].text)
              /\ p.id \notin DOMAIN producers
              /\ q.id \in DOMAIN producers

\* C12: with several producer elements of one id, the last of them decides:
\* the id maps to its path if its first resource is a file, and is no key of
\* the map if it is a placeholder or has no resource.
LastProducerWins ==
    pc # "producers" =>
        \A x \in DOMAIN doc.producers :
            LET p == doc.producers[x]
            IN  (\A y \in ProducersNamed(p.id) : y <= x) =>
                   IF FileText(FirstResourceText(p))
                   THEN /\ p.id \in DOMAIN producers
                        /\ producers[p.id] = PathOf(FirstResourceText(p).text)
                   ELSE p.id \notin DOMAIN producers

-----------------------------------------------------------------------------
(* Properties of the order of the clip list.                               *)

\* the loop indices a come before the loop indices b
Before(a, b) ==
    \/ a.tractor < b.tractor
    \/ a.tractor = b.tractor /\ a.track < b.track
    \/ a.tractor = b.tractor /\ a.track = b.track /\ a.playlist < b.playlist
    \/ SameWalk(a, b) /\ a.entry < b.entry

\* the clip is the one the entry at the loop indices w gives
ClipOf(clip, w) ==
    /\ clip.producer_id = EntryAt(w).producer
    /\ clip.in_point = InOf(EntryAt(w))
    /\ clip.out_point = OutOf(EntryAt(w))
    /\ clip.track = doc.tractors[w.tractor].tracks[w.track].producer
    /\ clip.position = FramesBefore(doc.playlists[w.playlist].entries, w.entry - 1)

\* C13: the clip list is in declaration order: the nth clip is the clip of
\* the nth emitting entry in the order of tractors, tracks, playlists and
\* entries, whatever the positions are.
DeclarationOrder ==
    /\ \A i \in DOMAIN clips : ClipOf(clips[i], origin[i])
    /\ \A i, j \in DOMAIN clips : i < j => Before(origin[i], origin[j])

\* a finished parse whose clip list has a clip at a higher position before a
\* clip at a lower position, within one track and across two tracks
DeclarationOrderWitness ==
    /\ pc = "done"
    /\ \E i, j \in DOMAIN clips :
          /\ i < j /\ SameWalk(origin[i], origin[j])
          /\ clips[i].position > clips[j].position
    /\ \E i, j \in DOMAIN clips :
          /\ i < j /\ origin[i].track < origin[j].track
          /\ clips[i].position > clips[j].position

-----------------------------------------------------------------------------
(* Properties of the operations on a stored catalog.  They are stated over *)
(* the file before the last operation (last.before), its arguments and the *)
(* file after it (catalog).                                                *)

\* the two characters are one letter in either case, or the same character
SameLetter(c, d) ==
    c = d \/ \E i \in 1..26 : {c, d} = {UpperCase[i], LowerCase[i]}

\* the filename contains the needle, letter case aside
Holds(filename, needle) ==
    \E k \in 0..(Len(filename) - Len(needle)) :
        \A j \in 1..Len(needle) : SameLetter(filename[k + j], needle[j])

\* the entries of the file before the last operation that hold the needle
Hits(needle) ==
    {k \in DOMAIN last.before.entries : Holds(last.before.entries[k].filename, needle)}

\* the earliest of them
Target == CHOOSE k \in Hits(last.args.clip_name) :
              \A m \in Hits(last.args.clip_name) : k <= m

Annotating == last.op = "annotate_clip" /\ Hits(last.args.clip_name) # {}

Editing ==
    /\ last.op = "edit_clip_interactive"
    /\ \E k \in DOMAIN last.before.entries :
          last.before.entries[k].filename = last.args.clip.filename

\* the entry the edit replaced: the earliest with the clip's filename
Edited == CHOOSE k \in DOMAIN last.before.entries :
              /\ last.before.entries[k].filename = last.args.clip.filename
              /\ \A m \in 1..(k - 1) :
                    last.before.entries[m].filename # last.args.clip.filename

\* the tags of an entry, none when it has no tags field
TagsOf(e) == IF "tags" \in DOMAIN e THEN {e.tags[i] : i \in DOMAIN e.tags} ELSE {}

NoDuplicates(list) == \A i, j \in DOMAIN list : list[i] = list[j] => i = j

\* C14: after annotate_clip with a tags patch the entry's tags are the tags
\* it had together with the tags of the patch, each once, and applying the
\* same patch to that entry again gives the same set of tags; the tags
\* prompt of edit_clip_interactive merges the same way.
TagMergeIsUnion ==
    /\ (Annotating /\ last.args.patch.tags # << >>) =>
          LET now == catalog.entries[Target]
              new == {last.args.patch.tags[1][i] : i \in DOMAIN last.args.patch.tags[1]}
          IN  /\ TagsOf(now) = TagsOf(last.before.entries[Target]) \cup new
              /\ NoDuplicates(now.tags)
              /\ \A again \in AnnotatedEntries(now, last.args.patch) :
                    TagsOf(again) = TagsOf(now) /\ NoDuplicates(again.tags)
    /\ (Editing /\ last.args.answers.tags # << >>) =>
          LET now == catalog.entries[Edited]
              typed == {last.args.answers.tags[i] : i \in DOMAIN last.args.answers.tags}
          IN  /\ TagsOf(now) = TagsOf(last.args.clip) \cup (typed \ {",", " "})
              /\ NoDuplicates(now.tags)

\* an entry tagged epic that annotate_clip was given the tags sun and epic for
TagMergeIsUnionWitness ==
    /\ Annotating
    /\ last.args.patch.tags = <<<<"sun", "epic">>>>
    /\ TagsOf(last.before.entries[Target]) = {"epic"}
    /\ TagsOf(catalog.entries[Target]) = {"epic", "sun"}

\* min(5, max(1, r))
Clamped(r) == IF r < 1 THEN 1 ELSE IF r > 5 THEN 5 ELSE r

\* the rating of an entry is null or one of 1..5; an entry without the field
\* has no rating
RatingInRange(e) ==
    "rating" \in DOMAIN e => (e.rating = << >> \/ e.rating \in {<<r>> : r \in 1..5})

\* C15: a rating patch r is stored as min(5, max(1, r)), a number typed at
\* the rating prompt likewise, and every rating of the catalog is null or in
\* 1..5 after any sequence of annotate_clip and edit_clip_interactive on a
\* catalog whose ratings were.
RatingClamp ==
    /\ \A k \in DOMAIN catalog.entries : RatingInRange(catalog.entries[k])
    /\ (Annotating /\ last.args.patch.rating # << >>) =>
          catalog.entries[Target].rating = <<Clamped(last.args.patch.rating[1])>>
    /\ (Editing /\ last.args.answers.rating \in {<<"7">>, <<"-", "3">>, <<" ", "0">>}) =>
          catalog.entries[Edited].rating =
             CASE last.args.answers.rating = <<"7">> -> <<5>>
               [] last.args.answers.rating = <<"-", "3">> -> <<1>>
               [] last.args.answers.rating = <<" ", "0">> -> <<1>>
    /\ (Editing /\ last.args.answers.rating \in {<< >>, <<"x">>}) =>
          /\ ("rating" \in DOMAIN catalog.entries[Edited]) <=>
                ("rating" \in DOMAIN last.args.clip)
          /\ "rating" \in DOMAIN last.args.clip =>
                catalog.entries[Edited].rating = last.args.clip.rating

\* an entry that a patch of -3 left at 1 and the answer 7 then set to 5
RatingClampWitness ==
    /\ Editing
    /\ last.args.answers.rating = <<"7">>
    /\ "rating" \in DOMAIN last.args.clip
    /\ last.args.clip.rating = <<1>>
    /\ catalog.entries[Edited].rating = <<5>>

\* the defaults C16 names for annotation fields a legacy entry lacks
LegacyDefaults ==
    [tags |-> << >>, rating |-> << >>, notes |-> "", motion_type |-> << >>,
     vibe |-> << >>, usable |-> TRUE, used_in |-> << >>]

\* the value an annotation field has before the patch is applied: the
\* entry's own, or the default when the entry lacks the field
Existing(e, f) == IF f \in DOMAIN e THEN e[f] ELSE LegacyDefaults[f]

\* C16: after annotate_clip the entry has all seven annotation fields; each
\* of rating, notes, motion_type, vibe, usable has the patch value when the
\* patch supplies it (the rating clamped) and else the value it had, or its
\* default when the entry lacked the field; used_in, the tags without a tags
\* patch, and every other field of the entry are as they were.
ScalarPatchSemantics ==
    Annotating =>
        LET was == last.before.entries[Target]
            now == catalog.entries[Target]
            patch == last.args.patch
        IN  /\ DOMAIN now = DOMAIN was \cup DOMAIN LegacyDefaults
            /\ now.rating = IF patch.rating # << >> THEN <<Clamped(patch.rating[1])>>
                            ELSE Existing(was, "rating")
            /\ now.notes = IF patch.notes # << >> THEN patch.notes[1]
                           ELSE Existing(was, "notes")
            /\ now.motion_type = IF patch.motion_type # << >> THEN patch.motion_type
                                 ELSE Existing(was, "motion_type")
            /\ now.vibe = IF patch.vibe # << >> THEN patch.vibe
                          ELSE Existing(was, "vibe")
            /\ now.usable = IF patch.usable # << >> THEN patch.usable[1]
                            ELSE Existing(was, "usable")
            /\ now.used_in = Existing(was, "used_in")
            /\ patch.tags = << >> => now.tags = Existing(was, "tags")
            /\ \A f \in DOMAIN was \ DOMAIN LegacyDefaults : now[f] = was[f]

\* an entry that had a rating and no other annotation field, patched with a
\* motion type, a vibe and usable: the rating is kept, the notes default
ScalarPatchSemanticsWitness ==
    /\ Annotating
    /\ DOMAIN last.before.entries[Target] \cap DOMAIN LegacyDefaults = {"rating"}
    /\ last.before.entries[Target].rating = <<5>>
    /\ last.args.patch.rating = << >>
    /\ last.args.patch.motion_type # << >>
    /\ catalog.entries[Target].rating = <<5>>
    /\ catalog.entries[Target].motion_type = last.args.patch.motion_type
    /\ catalog.entries[Target].notes = ""
    /\ catalog.entries[Target].usable = FALSE

\* C17: when the name annotate_clip is given is held by no entry's filename,
\* it returns False and does not write: the catalog file is what it was, with
\* no entry added.
LookupMissLeavesCatalog ==
    (last.op = "annotate_clip" /\ Hits(last.args.clip_name) = {}) =>
        /\ last.result = FALSE
        /\ ~last.saved
        /\ catalog = last.before

\* annotate_clip with a patch for a name that none of the entries of a
\* catalog holds
LookupMissLeavesCatalogWitness ==
    /\ last.op = "annotate_clip"
    /\ last.before.entries # << >>
    /\ Hits(last.args.clip_name) = {}
    /\ last.args.patch.tags # << >>
    /\ last.result = FALSE
    /\ catalog = last.before

\* the needles get_clip_by_name is tried with on every catalog reached
ProbedNeedles ==
    { << >>, <<"a">>, <<"A">>, <<"b">>, <<"B">>, <<"1">>, <<"z">>,
      <<"a", "b">>, <<"A", "B">>, <<"b", "a">>, <<"F", "P", "S">>, <<"a", "1", "1">> }

\* the entries of a list whose filename holds the needle
HitsIn(entries, needle) ==
    {k \in DOMAIN entries : Holds(entries[k].filename, needle)}

\* C18: get_clip_by_name returns the earliest entry of the list whose
\* filename holds the needle, letter case aside, and None exactly when no
\* filename holds it: for every catalog reached and every needle tried, and
\* for the lookup the last annotate_clip made.
FirstMatchWins ==
    /\ \A needle \in ProbedNeedles :
          LET entries == catalog.entries
              found == GetClipByName(LoadCatalog(catalog), needle)
          IN  /\ (found = 0) <=> (HitsIn(entries, needle) = {})
              /\ found # 0 =>
                    /\ found \in HitsIn(entries, needle)
                    /\ \A k \in HitsIn(entries, needle) : found <= k
    /\ last.op = "annotate_clip" =>
          /\ (last.found = 0) <=> (Hits(last.args.clip_name) = {})
          /\ (last.result = TRUE) <=> (Hits(last.args.clip_name) # {})
          /\ Annotating =>
                /\ last.found = Target
                /\ Len(catalog.entries) = Len(last.before.entries)
                /\ \A k \in DOMAIN catalog.entries :
                      k # Target => catalog.entries[k] = last.before.entries[k]

\* annotate_clip with a needle in the other letter case that two filenames
\* hold: the earlier entry is changed, the later one is not
FirstMatchWinsWitness ==
    /\ Annotating
    /\ Cardinality(Hits(last.args.clip_name)) >= 2
    /\ \E k \in Hits(last.args.clip_name) :
          /\ k > Target
          /\ ~Contains(last.before.entries[k].filename, last.args.clip_name)
          /\ catalog.entries[k] = last.before.entries[k]
    /\ catalog.entries[Target] # last.before.entries[Target]

\* C19: a catalog file that does not exist loads as the empty list, and is
\* not created by loading it: annotate_clip for any name then returns False
\* and show_catalog_summary finds nothing, and the file is still absent.
MissingFileIsEmptyCatalog ==
    /\ ~catalog.exists => LoadCatalog(catalog) = << >>
    /\ ~last.before.exists =>
          /\ last.op = "annotate_clip" =>
                last.found = 0 /\ last.result = FALSE /\ ~last.saved /\ ~catalog.exists
          /\ last.op = "show_catalog_summary" =>
                last.result.reported = "empty" /\ ~catalog.exists

\* a second annotate_clip on a file that is still missing after the first
MissingFileIsEmptyCatalogWitness ==
    /\ last.n = 2
    /\ last.op = "annotate_clip"
    /\ ~last.before.exists
    /\ last.args.clip_name = <<"a">>
    /\ last.args.patch.rating # << >>
    /\ last.result = FALSE
    /\ ~catalog.exists

\* C20: show_catalog_summary on a catalog that is empty or missing reports
\* that the catalog is empty and computes no percentage; no run of it ends
\* in a division by zero, and every percentage it computes divides by a
\* total_clips of at least 1, which is the number of entries.
EmptyCatalogSummary ==
    last.op = "show_catalog_summary" =>
        /\ last.result.reported # "ZeroDivisionError"
        /\ (last.before.entries = << >>) <=> (last.result.reported = "empty")
        /\ last.result.reported = "empty" => DOMAIN last.result = {"reported"}
        /\ last.result.reported = "summary" =>
              /\ last.result.total_clips >= 1
              /\ last.result.total_clips = Len(last.before.entries)
              /\ \A i \in DOMAIN last.result.rows :
                    /\ last.result.rows[i].count \in 0..last.result.total_clips
                    /\ last.result.rows[i].percentage \in 0..100
                    /\ (last.result.rows[i].percentage = 100) <=>
                          (last.result.rows[i].count = last.result.total_clips)
        /\ catalog = last.before

\* a summary of a file that exists and holds the empty list, after an
\* operation that left it so
EmptyCatalogSummaryWitness ==
    /\ last.n = 2
    /\ last.op = "show_catalog_summary"
    /\ last.before.exists
    /\ last.before.entries = << >>
    /\ last.result.reported = "empty"

-----------------------------------------------------------------------------
(* C24, C30: the timecodes frames_to_timecode prints.                      *)

\* the text of a timecode up to its k-th colon excluded, from the colon
\* before it
RECURSIVE FieldOf(_, _)
FieldOf(text, k) ==
    LET colon == IF \E i \in DOMAIN text : text[i] = ":"
                 THEN CHOOSE i \in DOMAIN text :
                          text[i] = ":" /\ \A j \in 1..(i - 1) : text[j] # ":"
                 ELSE Len(text) + 1
    IN  IF k = 1 THEN SubSeq(text, 1, colon - 1)
        ELSE FieldOf(SubSeq(text, colon + 1, Len(text)), k - 1)

\* the number a run of digits writes, a decimal point in it skipped
RECURSIVE Written(_)
Written(field) ==
    IF field = << >> THEN 0
    ELSE IF field[Len(field)] = "." THEN Written(SubSeq(field, 1, Len(field) - 1))
    ELSE 10 * Written(SubSeq(field, 1, Len(field) - 1))
         + (CHOOSE d \in 0..9 : Digits[d + 1] = field[Len(field)])

\* a timecode HH:MM:SS.mmm read back, in thousandths of a second
ReadBack(text) ==
    (Written(FieldOf(text, 1)) * 3600 + Written(FieldOf(text, 2)) * 60) * 1000
    + Written(FieldOf(text, 3))

ThreeSeconds == <<"0", "0", ":", "0", "0", ":", "0", "3", ".", "0", "0", "0">>

\* C24: at 30 frames a second the timecode of a frame count f >= 0, read
\* back into seconds and multiplied by 30, lies within one frame of f, and
\* the timecode of frame 90 is 00:00:03.000.
TimecodeRoundTrip ==
    (tpc = "done" /\ fps.num = 30 /\ fps.den = 1 /\ frames >= 0) =>
        /\ timecode.raised = ""
        /\ ReadBack(timecode.text) * 30 - frames * 1000 \in (0 - 1000)..1000
        /\ frames = 90 => timecode.text = ThreeSeconds

TimecodeRoundTripWitness ==
    /\ tpc = "done" /\ fps.num = 30 /\ fps.den = 1
    /\ frames = 107999
    /\ timecode.text = <<"0", "0", ":", "5", "9", ":", "5", "9", ".", "9", "6", "7">>

\* C30: for a frame count f >= 0 and a positive frame rate num/den the
\* minutes field is within 00..59 and the seconds field is below 60.000.
TimecodeFieldRanges ==
    (tpc = "done" /\ frames >= 0 /\ fps.num * fps.den > 0 /\ timecode.raised = "") =>
        /\ Len(FieldOf(timecode.text, 2)) = 2
        /\ Written(FieldOf(timecode.text, 2)) \in 0..59
        /\ Written(FieldOf(timecode.text, 3)) < 60000

-----------------------------------------------------------------------------
(* C21: the pages of browse_catalog.                                       *)

\* a before b in code point order, a proper prefix first
NameBefore(a, b) ==
    \/ Len(a) < Len(b) /\ SubSeq(b, 1, Len(a)) = a
    \/ \E k \in 1..Min(Len(a), Len(b)) :
           /\ SubSeq(a, 1, k - 1) = SubSeq(b, 1, k - 1)
           /\ (CHOOSE i \in DOMAIN Collation : Collation[i] = a[k])
                  < (CHOOSE j \in DOMAIN Collation : Collation[j] = b[k])

\* the least k with k * page_size >= n
PagesNeeded(n) == CHOOSE k \in 0..n : k * page_size >= n /\ (k - 1) * page_size < n

Browsing == bpc \in {"show", "prompt", "quit"}

\* the list is the file's entries in ascending order of filename, the page
\* index is within its range, and the slice on display is the non-empty run
\* of the list that the page index names
PageInBounds ==
    /\ Browsing =>
           /\ Len(listed) = Len(catalog.entries)
           /\ {listed[i].filename : i \in DOMAIN listed}
                  = {catalog.entries[i].filename : i \in DOMAIN catalog.entries}
           /\ \A i \in 1..(Len(listed) - 1) :
                  ~NameBefore(listed[i + 1].filename, listed[i].filename)
           /\ page \in 0..(PagesNeeded(Len(listed)) - 1)
    /\ bpc = "prompt" =>
           /\ page_clips # << >>
           /\ Len(page_clips) <= page_size
           /\ \A j \in DOMAIN page_clips :
                  page_clips[j] = listed[page * page_size + j]
           /\ \/ Len(page_clips) = page_size
              \/ page * page_size + Len(page_clips) = Len(listed)

\* C21: after any sequence of commands the sorted list, the page index and
\* the displayed slice are as PageInBounds says, and a next on the last page
\* or a prev on the first page leaves the page index unchanged.
PaginationBounds ==
    [][ /\ PageInBounds'
        /\ (bpc = "prompt" /\ Lower(cmd') = <<"n">> /\ commands' = commands + 1
            /\ page = PagesNeeded(Len(listed)) - 1) => page' = page
        /\ (bpc = "prompt" /\ Lower(cmd') = <<"p">> /\ commands' = commands + 1
            /\ page = 0) => page' = page ]_vars

\* the last of two pages is on display after an edit and a next that was
\* answered on the last page
PaginationBoundsWitness ==
    /\ bpc = "prompt"
    /\ cmd = <<"n">>
    /\ commands = 3
    /\ last.op = "edit_clip_interactive"
    /\ Len(listed) = page_size + 1
    /\ page = 1
    /\ Len(page_clips) = 1
    /\ page_clips[1].filename = <<"c", "1", "5">>

-----------------------------------------------------------------------------
(* C27: what a successful annotate_clip leaves as it was.                  *)

\* the fields of an entry that the probe of the file wrote
ProbedFields == {"filename", "path", "size_bytes", "duration_seconds", "format", "video"}

\* C27: after an annotate_clip that returned True the saved catalog has the
\* entries of the loaded one, in the same order and unchanged, except for
\* the first entry the name matches, and that entry has the technical
\* fields it had, with the values it had.
AnnotateFrame ==
    (last.op = "annotate_clip" /\ last.result = TRUE) =>
        /\ Hits(last.args.clip_name) # {}
        /\ catalog.exists
        /\ Len(catalog.entries) = Len(last.before.entries)
        /\ \A k \in DOMAIN last.before.entries :
               k # Target => catalog.entries[k] = last.before.entries[k]
        /\ \A f \in ProbedFields :
               /\ (f \in DOMAIN catalog.entries[Target])
                      = (f \in DOMAIN last.before.entries[Target])
               /\ f \in DOMAIN last.before.entries[Target] =>
                      catalog.entries[Target][f] = last.before.entries[Target][f]

\* an annotation that changed the first of two entries the name matches
AnnotateFrameWitness ==
    /\ last.op = "annotate_clip" /\ last.result = TRUE
    /\ Cardinality(Hits(last.args.clip_name)) >= 2
    /\ Target = 1
    /\ catalog.entries[1] # last.before.entries[1]
    /\ catalog.entries[2] = last.before.entries[2]

-----------------------------------------------------------------------------
(* C26: two invocations that load, load, save and save.                    *)

Happened(p, step) ==
    \E k \in DOMAIN events : events[k].inv = p /\ events[k].step = step

When(p, step) ==
    CHOOSE k \in DOMAIN events : events[k].inv = p /\ events[k].step = step

\* both invocations loaded before either saved, and p saved before q
LoadLoadSaveSave(p, q) ==
    /\ p # q
    /\ Happened(p, "save") /\ Happened(q, "save")
    /\ When(q, "load") < When(p, "save")
    /\ When(p, "save") < When(q, "save")

\* the earliest entry whose filename holds the needle
FirstHolding(entries, needle) ==
    CHOOSE k \in DOMAIN entries :
        /\ Holds(entries[k].filename, needle)
        /\ \A m \in 1..(k - 1) : ~Holds(entries[m].filename, needle)

\* the earliest entry with the filename
FirstWithName(entries, filename) ==
    CHOOSE k \in DOMAIN entries :
        /\ entries[k].filename = filename
        /\ \A m \in 1..(k - 1) : entries[m].filename # filename

\* what p saved is gone from entry k of the file
Lost(p, k) ==
    /\ events[When(p, "save")].file.entries[k] # stored.entries[k]
    /\ catalog.entries[k] = stored.entries[k]

\* C26: when two invocations interleave as load, load, save, save, nothing
\* guards the file.  After an annotate_clip saved last, every entry but the
\* one it annotated is as it was before either invocation, whatever the
\* other saved; after an edit of browse_catalog saved last, the entry it
\* replaced is the edit of the entry as it was before either invocation.
UnguardedCatalogRace ==
    \A p, q \in Invocations :
        LoadLoadSaveSave(p, q) =>
            /\ Len(catalog.entries) = Len(stored.entries)
            /\ job[q].op = "annotate_clip" =>
                   \A k \in DOMAIN stored.entries :
                       k # FirstHolding(stored.entries, job[q].clip_name) =>
                           catalog.entries[k] = stored.entries[k]
            /\ job[q].op = "browse_catalog" =>
                   LET k == FirstWithName(stored.entries, memory[q].clip[1].filename)
                   IN  catalog.entries[k] \in EditedClips(stored.entries[k], job[q].answers)

\* the final file misses the update of the annotate_clip that saved first
UnguardedCatalogRaceWitness ==
    \E p, q \in Invocations :
        /\ LoadLoadSaveSave(p, q)
        /\ job[p].op = "annotate_clip" /\ job[q].op = "annotate_clip"
        /\ rpc[p] = "saved" /\ rpc[q] = "saved"
        /\ \E k \in DOMAIN stored.entries : Lost(p, k)

\* the final file misses the update of the annotate_clip that saved between
\* the load of browse_catalog and the save of its edit
StaleEditWitness ==
    \E p, q \in Invocations :
        /\ LoadLoadSaveSave(p, q)
        /\ job[p].op = "annotate_clip" /\ job[q].op = "browse_catalog"
        /\ When(p, "save") < When(q, "reload")
        /\ \E k \in DOMAIN stored.entries :
               /\ events[When(p, "save")].file.entries[k] # stored.entries[k]
               /\ catalog.entries[k] # events[When(p, "save")].file.entries[k]
               /\ "notes" \in DOMAIN catalog.entries[k] => catalog.entries[k].notes # "windy"

-----------------------------------------------------------------------------
(* C22, C23, C28: one run of extract_clips.                                *)

\* the values of a list of the tally
Listed(key) == {xresults[key][n] : n \in DOMAIN xresults[key]}

\* the last component of a path text
LastPart(path) ==
    LET slashes == {i \in DOMAIN path : path[i] = "/"}
        cut == IF slashes = {} THEN 0 ELSE CHOOSE i \in slashes : \A j \in slashes : j <= i
    IN  SubSeq(path, cut + 1, Len(path))

\* the clips the loop left in the way how
LeftAs(how) == {k \in DOMAIN trace : trace[k].how = how}

MalformedIsFatal ==
    (project.exists /\ ~project.wellformed) =>
        /\ pc \in {"unparsed", "raised"}
        /\ clips = << >>
        /\ producers = << >>
        /\ xpc \in {"start", "parsing", "raised"}
        /\ xpc = "raised" => xraised = "ParseError"
        /\ xresults = << >>
        /\ trace = << >>
        /\ dirs = {}

MalformedIsFatalWitness ==
    /\ project.exists /\ ~project.wellformed
    /\ pc = "raised" /\ raised = "ParseError"
    /\ xpc = "raised" /\ xraised = "ParseError"

\* C28: when extract_clips has run to its end after the user confirmed, the
\* loop has left every clip once, in exactly one of the lists success,
\* failed and skipped, the three lists are as long together as the list of
\* clips, and the extractor ran for the clips under success and failed only.
TallyPartition ==
    xpc = "done" =>
        /\ Len(xresults.success) + Len(xresults.failed) + Len(xresults.skipped)
               = Len(clips)
        /\ DOMAIN trace = DOMAIN clips
        /\ \A k \in DOMAIN trace : trace[k].clip = k
        /\ Cardinality(LeftAs("success")) = Len(xresults.success)
        /\ Cardinality(LeftAs("failed")) = Len(xresults.failed)
        /\ Cardinality(LeftAs("no category") \cup LeftAs("output exists"))
               = Len(xresults.skipped)
        /\ \A k \in DOMAIN trace :
               trace[k].ran <=> k \in LeftAs("success") \cup LeftAs("failed")

\* three clips, one in each list
TallyPartitionWitness ==
    /\ xpc = "done"
    /\ Len(clips) = 3
    /\ Len(xresults.success) = 1
    /\ Len(xresults.failed) = 1
    /\ Len(xresults.skipped) = 1
    /\ trace[1].how = "no category"

-----------------------------------------------------------------------------
(* C25: backup before overwrite.                                           *)

TheProject == <<"/", "w", "/", "p", ".", "k", "d", "e", "n", "l", "i", "v", "e">>
TheBackup == TheProject \o <<".", "b", "a", "k">>

\* the step changes the file at the path: creates, removes or rewrites it
Touched(path) ==
    \/ (path \in DOMAIN fs) # (path \in DOMAIN fs')
    \/ path \in DOMAIN fs /\ path \in DOMAIN fs' /\ fs'[path] # fs[path]

\* C25: link_proxies_to_project writes the project file only when the
\* sibling .bak file already holds, and keeps, the content the project file
\* has before the write; it writes no file other than these two; and it
\* writes the project file or the backup only when a producer was updated.
BackupBeforeOverwrite ==
    [][ /\ Touched(TheProject) =>
              /\ TheBackup \in DOMAIN fs
              /\ fs[TheBackup] = fs[TheProject]
              /\ fs'[TheBackup] = fs[TheProject]
        /\ Touched(TheBackup) =>
              /\ fs'[TheBackup] = fs[TheProject]
              /\ fs'[TheProject] = fs[TheProject]
        /\ \A path \in DOMAIN fs \cup DOMAIN fs' :
              Touched(path) => path \in {TheProject, TheBackup} /\ updated > 0
      ]_vars

\* a run that updated two producers has returned: the project is the
\* re-serialised tree with the proxy properties, the backup the authored file
BackupBeforeOverwriteWitness ==
    /\ ppc = "returned"
    /\ updated = 2
    /\ fs[TheProject].text = "serialised"
    /\ \E k \in DOMAIN fs[TheProject].tree :
          \E i \in DOMAIN fs[TheProject].tree[k].props :
              fs[TheProject].tree[k].props[i].name = "kdenlive:proxy"
    /\ fs[TheBackup].text = "authored"
    /\ fs[TheBackup].tree # fs[TheProject].tree

\* a run that updated no producer has returned, and there is no backup
NothingLinkedWitness ==
    /\ ppc = "returned"
    /\ updated = 0
    /\ TheBackup \notin DOMAIN fs
    /\ fs[TheProject].text = "authored"
    /\ fs[TheProject].tree # << >>

-----------------------------------------------------------------------------
(* C29: ingest never loses footage.                                        *)

VideoEndings ==
    { <<".", "m", "p", "4">>, <<".", "M", "P", "4">>, <<".", "m", "o", "v">>,
      <<".", "M", "O", "V">> }

\* the files of the source directory that ingest_footage found
SourceFound ==
    { name \in DOMAIN footage :
        \E e \in VideoEndings : SubSeq(name, Len(name) - 3, Len(name)) = e }

\* the bytes the file had at the call are at its source path, or in a file
\* of the destination directory
Kept(name) ==
    \/ name \in DOMAIN card.files /\ card.files[name] = footage[name]
    \/ \E d \in DOMAIN raw : raw[d] = footage[name]

\* C29: when ingest_footage has returned, the content of every source file
\* found still exists at the source path or at the destination, in copy and
\* in move mode, also after a checksum mismatch.
IngestKeepsFootage ==
    gpc = "returned" => \A name \in SourceFound : Kept(name)

\* the same for copy mode alone
CopyKeepsFootage ==
    (gpc = "returned" /\ ~ingest.move) => \A name \in SourceFound : Kept(name)

\* a move with verification has returned after a mismatch, and the clip is
\* at neither place
FootageLost ==
    /\ gpc = "returned"
    /\ ingest.move /\ ingest.verify
    /\ \E name \in SourceFound :
          /\ ~Kept(name)
          /\ \E i \in DOMAIN gresults.failed : gresults.failed[i] = name

=============================================================================
